---- MODULE Spec2Model ----
(***************************************************************************)
(* Model of the rank-checking pipeline of server/routes.ts: the three      *)
(* entry points /api/process-csv-stream, /api/process-csv and              *)
(* /api/campaigns/:id/rerun, the upstream fetch (searchSerperPlaces), the  *)
(* name normalisers, the geo-grid generator and the storage calls the      *)
(* handlers make; of the dashboard's collapse of the result list into its  *)
(* best-match view; and of the trends of GET /api/ranking-history.         *)
(*                                                                         *)
(* One model step is the code a handler runs between two awaits.           *)
(* Strings that the code inspects (brand, branch, listing title) are       *)
(* sequences of one-character strings; JavaScript values whose type        *)
(* varies at run time (number | null | undefined | string) are tagged      *)
(* records [t |-> typeof, v |-> value].                                    *)
(***************************************************************************)
EXTENDS Integers, Sequences, FiniteSets, TLC

(***************************************************************************)
(* Bounds of the model.                                                    *)
(***************************************************************************)
\* longest task list of a run
MaxTasks == 2
\* most (task, grid point) pairs of a run
MaxVisits == 4
\* most listings the upstream puts on one page
MaxPlaces == 2
\* most listings the upstream returns to one run before it only returns
\* empty pages
MaxListings == 4
\* most listings the upstream returns, in all, to two runs served at the
\* same time
MaxSharedListings == 2
\* largest gridSize of the geo-grid specification
MaxGridSize == 4
\* largest radius of the geo-grid specification, in steps of 3 km
MaxRadiusSteps == 3
\* most rows of the input of the input specification
MaxInputRows == 2
\* most listings the upstream returns to the run of the input specification
MaxInputListings == 1
\* most listings the upstream returns to the run of the scheduled
\* specification
MaxLiveListings == 2
\* longest task list, and most listings the upstream returns, in the
\* client specification
MaxClientTasks == 2
MaxClientListings == 3
\* most listings the upstream returns to each run of the route
\* specification
MaxRouteListings == 2
\* longest branch name and longest listing title of the spelling
\* specification
MaxBranchLen == 3
MaxSpelledTitleLen == 4
\* longest listing title of the matching specification
MaxTitleLen == 3
\* longest brand / branch name of the matching specification
MaxNameLen == 2

(***************************************************************************)
(* JavaScript values.                                                      *)
(***************************************************************************)
Undefined == [t |-> "undefined"]
Null == [t |-> "null"]
Num(n) == [t |-> "number", v |-> n]
Str(s) == [t |-> "string", v |-> s]

\* typeof x === 'number'
IsNumber(x) == x.t = "number"

\* JavaScript truthiness of a tagged value
Truthy(x) ==
  CASE x.t = "number" -> x.v # 0
    [] x.t = "string" -> x.v # <<>>
    [] OTHER -> FALSE

\* x || y
OrElse(x, y) == IF Truthy(x) THEN x ELSE y

\* String(x) of a number: the decimal text of x, kept as a token
String(x) == Str(<<"num", x.v>>)

(***************************************************************************)
(* Characters and strings.                                                 *)
(***************************************************************************)
\* the characters of the modelled inputs: an upper-case letter, a digit, a
\* blank and a punctuation mark
Chars == {"A", "1", " ", "."}

\* the letters and digits of ASCII
Uppers ==
  <<"A", "B", "C", "D", "E", "F", "G", "H", "I", "J", "K", "L", "M",
    "N", "O", "P", "Q", "R", "S", "T", "U", "V", "W", "X", "Y", "Z">>
Lowers ==
  <<"a", "b", "c", "d", "e", "f", "g", "h", "i", "j", "k", "l", "m",
    "n", "o", "p", "q", "r", "s", "t", "u", "v", "w", "x", "y", "z">>
Digits == {"0", "1", "2", "3", "4", "5", "6", "7", "8", "9"}

\* the lower-case letter of each upper-case letter
LowerOf ==
  [c \in {Uppers[k] : k \in DOMAIN Uppers} |->
     Lowers[CHOOSE k \in DOMAIN Uppers : Uppers[k] = c]]

\* String.prototype.toLowerCase on one character
LowerChar(c) == IF c \in DOMAIN LowerOf THEN LowerOf[c] ELSE c

toLowerCase(s) == [k \in 1..Len(s) |-> LowerChar(s[k])]

\* the regular expression class \s
IsWhitespace(c) == c = " "

\* the regular expression class [a-z0-9]
IsLowerAlnum(c) == c \in {Lowers[k] : k \in DOMAIN Lowers} \cup Digits

\* text.toLowerCase().replace(/\s/g, '')
normalizeBrandName(text) ==
  SelectSeq(toLowerCase(text), LAMBDA c : ~IsWhitespace(c))

\* text.toLowerCase().replace(/[^a-z0-9]/g, '')
normalizeBranchName(text) ==
  SelectSeq(toLowerCase(text), LAMBDA c : IsLowerAlnum(c))

\* String.prototype.trimStart and trimEnd
RECURSIVE trimStart(_)
trimStart(text) ==
  IF text # <<>> /\ IsWhitespace(Head(text)) THEN trimStart(Tail(text))
  ELSE text

RECURSIVE trimEnd(_)
trimEnd(text) ==
  IF text # <<>> /\ IsWhitespace(text[Len(text)])
  THEN trimEnd(SubSeq(text, 1, Len(text) - 1))
  ELSE text

\* String.prototype.trim
trim(text) == trimEnd(trimStart(text))

\* the loop of parseCSV over result.data from row k on: a row is pushed,
\* with its three fields trimmed, if none of them is empty after trimming
RECURSIVE pushValidRows(_, _, _)
pushValidRows(rows, data, k) ==
  IF k > Len(data) THEN rows
  ELSE LET keywords == trim(data[k].Keywords)
           brand == trim(data[k].Brand)
           branch == trim(data[k].Branch)
       IN pushValidRows(
            IF keywords # <<>> /\ brand # <<>> /\ branch # <<>>
            THEN Append(rows, [Keywords |-> keywords, Brand |-> brand,
                               Branch |-> branch])
            ELSE rows,
            data, k + 1)

\* parseCSV, from the parsed rows (result.data) on; the result is empty
\* where the code throws "No valid data rows found in CSV"
parseCSV(data) == pushValidRows(<<>>, data, 1)

\* String.prototype.includes: a left-to-right scan for the first offset
\* at which t occurs in s
RECURSIVE indexOfFrom(_, _, _)
indexOfFrom(s, t, k) ==
  IF k + Len(t) > Len(s) THEN -1
  ELSE IF SubSeq(s, k + 1, k + Len(t)) = t THEN k
  ELSE indexOfFrom(s, t, k + 1)

includes(s, t) == indexOfFrom(s, t, 0) # -1

\* const title = place.title || ''
titleOf(place) == OrElse(place.title, Str(<<>>)).v

\* title.toLowerCase().replace(/\s/g, '')
normTitleOf(title) ==
  SelectSeq(toLowerCase(title), LAMBDA c : ~IsWhitespace(c))

\* variant: the brand must be directly followed by the branch
brandMatch_BrandThenBranch(normTitle, normBrand, normBranch) ==
  includes(normTitle, normBrand \o normBranch)

\* normTitle.includes(normBrand) && normTitle.includes(normBranch)
brandMatch(normTitle, normBrand, normBranch) ==
  includes(normTitle, normBrand) /\ includes(normTitle, normBranch)

\* variant: the local pack is the first two results
isLocalPack_TopTwo(queryResultIndex) == queryResultIndex < 3

\* const isLocalPack = queryResultIndex <= 3
isLocalPack(queryResultIndex) == queryResultIndex <= 3

\* variant: the position in the local pack is counted from 0
localPackPosition_FromZero(queryResultIndex) ==
  IF isLocalPack(queryResultIndex) THEN Num(queryResultIndex - 1) ELSE Null

\* const localPackPosition = isLocalPack ? queryResultIndex : null
localPackPosition(queryResultIndex) ==
  IF isLocalPack(queryResultIndex) THEN Num(queryResultIndex) ELSE Null

\* all strings over Chars of length at most n
StringsUpTo(n) == UNION {[1..k -> Chars] : k \in 0..n}

(***************************************************************************)
(* Geo-grid generator.  Coordinates are exact multiples of 1/11132 degree  *)
(* (one hundredth of a kilometre of latitude), so that the divisions by    *)
(* kmPerDegreeLat = 111.32 are exact; Math.cos is tabulated, in            *)
(* thousandths, for the centre latitudes of GeoGridConfigs.                *)
(***************************************************************************)

\* const kmPerDegreeLat = 111.32, in hundredths of a kilometre
kmPerDegreeLat == 11132

\* one degree, in coordinate units
Degree == kmPerDegreeLat

\* Math.cos(centerLat * Math.PI / 180), in thousandths
CosPermille(centerLat) ==
  CASE centerLat = 0 -> 1000
    [] centerLat = 60 * Degree -> 500
    [] centerLat = -60 * Degree -> 500


\* const kmPerDegreeLng = 111.32 * Math.cos(centerLat * Math.PI / 180)
kmPerDegreeLng(centerLat) == (kmPerDegreeLat * CosPermille(centerLat)) \div 1000

\* km / kmPerDegree, in coordinate units
KmToDegrees(km, kmPerDegree) == (km * 100 * Degree) \div kmPerDegree

\* const latStep = (radiusKm * 2) / (gridSize - 1) / kmPerDegreeLat
latStep(radiusKm, gridSize) ==
  KmToDegrees(radiusKm * 2, kmPerDegreeLat) \div (gridSize - 1)

\* const lngStep = (radiusKm * 2) / (gridSize - 1) / kmPerDegreeLng
lngStep(centerLat, radiusKm, gridSize) ==
  KmToDegrees(radiusKm * 2, kmPerDegreeLng(centerLat)) \div (gridSize - 1)

\* the point pushed by the loop body for the loop counters ii and jj
gridPoint(centerLat, centerLng, radiusKm, gridSize, ii, jj) ==
  [lat |-> Num(centerLat - KmToDegrees(radiusKm, kmPerDegreeLat)
                 + ii * latStep(radiusKm, gridSize)),
   lng |-> Num(centerLng - KmToDegrees(radiusKm, kmPerDegreeLng(centerLat))
                 + jj * lngStep(centerLat, radiusKm, gridSize))]

\* variant: the loops are nested the other way round (j outside, i inside)
RECURSIVE pushPoints_ByColumn(_, _, _, _, _, _, _)
pushPoints_ByColumn(points, centerLat, centerLng, radiusKm, gridSize, ii, jj) ==
  IF jj >= gridSize THEN points
  ELSE IF ii >= gridSize
  THEN pushPoints_ByColumn(points, centerLat, centerLng, radiusKm,
                              gridSize, 0, jj + 1)
  ELSE pushPoints_ByColumn(
         Append(points, gridPoint(centerLat, centerLng, radiusKm, gridSize,
                                  ii, jj)),
         centerLat, centerLng, radiusKm, gridSize, ii + 1, jj)

\* for (let i = 0; i < gridSize; i++) for (let j = 0; j < gridSize; j++)
\* points.push({lat, lng}): the loops from the counters ii and jj on
RECURSIVE pushPoints(_, _, _, _, _, _, _)
pushPoints(points, centerLat, centerLng, radiusKm, gridSize, ii, jj) ==
  IF ii >= gridSize THEN points
  ELSE IF jj >= gridSize
  THEN pushPoints(points, centerLat, centerLng, radiusKm, gridSize, ii + 1, 0)
  ELSE pushPoints(
         Append(points, gridPoint(centerLat, centerLng, radiusKm, gridSize,
                                  ii, jj)),
         centerLat, centerLng, radiusKm, gridSize, ii, jj + 1)

generateGeoGrid(centerLat, centerLng, radiusKm, gridSize) ==
  pushPoints(<<>>, centerLat, centerLng, radiusKm, gridSize, 0, 0)

(***************************************************************************)
(* Inputs of a run.                                                        *)
(***************************************************************************)
Routes == {"stream", "csv", "rerun"}

\* the rows a run works on (QueryRow), after parseCSV: the n-th row of
\* the input
QueryRowAt(n) ==
  IF n % 2 = 1
  THEN [Keywords |-> <<"k", "1">>, Brand |-> <<"A">>,
        Branch |-> <<"1", ".">>]
  ELSE [Keywords |-> <<"k", "2">>, Brand |-> <<"1">>, Branch |-> <<"1">>]

\* the task lists of the modelled requests
QueryLists == {[k \in 1..n |-> QueryRowAt(k)] : n \in 1..MaxTasks}

\* the listings the upstream may return (only the title is inspected)
Places ==
  { [title |-> Str(<<"1", " ", "A">>)],
    [title |-> Str(<<"A">>)] }

\* the pages the upstream may return: at most MaxPlaces listings
PagesUpTo(n) == UNION {[1..k -> Places] : k \in 0..n}

\* the task of the worked example: keyword "dentist london", brand
\* "Bright Smile", branch "London"
ExampleRow ==
  [Keywords |-> <<"d", "e", "n", "t", "i", "s", "t", " ",
                  "l", "o", "n", "d", "o", "n">>,
   Brand |-> <<"B", "r", "i", "g", "h", "t", " ", "S", "m", "i", "l", "e">>,
   Branch |-> <<"L", "o", "n", "d", "o", "n">>]

\* the listing titled "Bright Smile Dental London"
ExampleListing ==
  [title |-> Str(<<"B", "r", "i", "g", "h", "t", " ", "S", "m", "i", "l", "e",
                   " ", "D", "e", "n", "t", "a", "l", " ",
                   "L", "o", "n", "d", "o", "n">>)]

\* the other listings of the example: "Smile Dental", "London Dentist" and
\* a listing without title
OtherListings ==
  { [title |-> Str(<<"S", "m", "i", "l", "e", " ",
                     "D", "e", "n", "t", "a", "l">>)],
    [title |-> Str(<<"L", "o", "n", "d", "o", "n", " ",
                     "D", "e", "n", "t", "i", "s", "t">>)],
    [title |-> Undefined] }

\* the first pages the upstream may return for the example keyword: five
\* listings, the second of them the example listing
ExamplePages ==
  { [k \in 1..5 |-> IF k = 2 THEN ExampleListing ELSE others[k]] :
      others \in [{1, 3, 4, 5} -> OtherListings] }

\* the rows of an input (of the uploaded CSV, of campaign.queryData): a
\* row to be trimmed, a row with a blank brand, a row without keywords and
\* a clean row
InputRows ==
  { [Keywords |-> <<" ", "k", "1">>, Brand |-> <<"A", " ">>,
     Branch |-> <<"1", ".">>],
    [Keywords |-> <<"k", "2">>, Brand |-> <<" ">>, Branch |-> <<"1">>],
    [Keywords |-> <<>>, Brand |-> <<"1">>, Branch |-> <<"1">>],
    [Keywords |-> <<"k", "2">>, Brand |-> <<"1">>, Branch |-> <<"1">>] }

\* the inputs of the input specification
Inputs == UNION {[1..n -> InputRows] : n \in 1..MaxInputRows}

\* geoGridConfig of the request body
GeoGridConfigs ==
  { [centerLat |-> 60 * Degree, centerLng |-> 0, radiusKm |-> 5,
     gridSize |-> 2] }

\* a request: entry point, task list, geo-grid options
Requests ==
  { rq \in [route : Routes, queryData : QueryLists,
            geoGridEnabled : BOOLEAN,
            geoGridConfig : GeoGridConfigs \cup {Null}] :
      /\ rq.geoGridEnabled <=> rq.geoGridConfig # Null
      /\ rq.geoGridEnabled =>
           Len(rq.queryData) * (rq.geoGridConfig.gridSize
                                  * rq.geoGridConfig.gridSize) <= MaxVisits }

\* the handler invocations of the model
RunIds == {1, 2}

(***************************************************************************)
(* State.                                                                  *)
(***************************************************************************)
VARIABLES
  req,              \* per run: the request being served, or Null
  pc,               \* per run: the await the handler is suspended at
  searchId,         \* per run: id of the search record, or Null
  i,                \* per run: task loop index (0-based, as in the code)
  gridIndex,        \* per run: position in gridPoints (1-based)
  page,             \* per run: page of the current grid point
  queryResultIndex, \* per run: rank counter
  foundBrandMatch,  \* per run: a listing of the current task matched
  allResults,       \* per run: the accumulated result list
  totalApiCalls,    \* per run: completed upstream calls
  error,            \* per run: message of the error being handled, or Null
  out,              \* per run: what the handler sent to its caller
  searches,         \* storage: search records by id
  sink,             \* storage: the calls of createRankingResults
  inflight,         \* upstream: requests not yet answered
  fetchLog,         \* upstream: per run, the requests received, each with
                    \* its answer
  timers,           \* per run: the timers (setTimeout) that have fired, each
                    \* with the number of requests the run had sent by then
  apiKey,           \* process.env.SERPER_API_KEY is set
  stock,            \* upstream: the listings it has for the runs it serves
  matchCase,        \* the brand / branch / title of the matching specification
  gridCase,         \* the grid of the geo-grid specification
  historyCase,      \* the stored rows, the request and the answer of the
                    \* ranking-history specification
  queryMap          \* client: the best-match view of the result list (an
                    \* object holding the entries of queryMap in insertion
                    \* order, each a key and an item), or Null before the
                    \* 'complete' event is handled

locals == <<pc, searchId, i, gridIndex, page, queryResultIndex,
            foundBrandMatch, allResults, totalApiCalls, error, out>>
storageVars == <<searches, sink>>
upstream == <<inflight, fetchLog>>
environment == <<apiKey, stock>>
cases == <<matchCase, gridCase, historyCase>>
client == <<queryMap>>
vars == <<req, locals, storageVars, upstream, timers, environment, cases,
          client>>

\* error messages, each kept as one token
ErrNoKey == <<"SERPER_API_KEY not configured">>
ErrSerper == <<"Serper API error: 500 Internal Server Error">>
ErrStorage == <<"storage error">>
ErrNoRows == <<"No valid data rows found in CSV">>

\* variant: without geo grid the one grid point is (0, 0)
gridPoints_Origin(rq) ==
  IF rq.geoGridEnabled /\ rq.geoGridConfig # Null
  THEN generateGeoGrid(rq.geoGridConfig.centerLat, rq.geoGridConfig.centerLng,
                       rq.geoGridConfig.radiusKm, rq.geoGridConfig.gridSize)
  ELSE <<[lat |-> Num(0), lng |-> Num(0)]>>

\* the grid points of a request (routes.ts: const gridPoints = ...)
gridPoints(rq) ==
  IF rq.geoGridEnabled /\ rq.geoGridConfig # Null
  THEN generateGeoGrid(rq.geoGridConfig.centerLat, rq.geoGridConfig.centerLng,
                       rq.geoGridConfig.radiusKm, rq.geoGridConfig.gridSize)
  ELSE <<[lat |-> Undefined, lng |-> Undefined]>>

InitCommon ==
  /\ searchId = [r \in RunIds |-> Null]
  /\ i = [r \in RunIds |-> 0]
  /\ gridIndex = [r \in RunIds |-> 1]
  /\ page = [r \in RunIds |-> 1]
  /\ queryResultIndex = [r \in RunIds |-> 1]
  /\ foundBrandMatch = [r \in RunIds |-> FALSE]
  /\ allResults = [r \in RunIds |-> <<>>]
  /\ totalApiCalls = [r \in RunIds |-> 0]
  /\ error = [r \in RunIds |-> Null]
  /\ out = [r \in RunIds |-> <<>>]
  /\ searches = <<>>
  /\ sink = <<>>
  /\ inflight = {}
  /\ fetchLog = [r \in RunIds |-> <<>>]
  /\ timers = [r \in RunIds |-> <<>>]
  /\ queryMap = Null

\* one request is served
Init ==
  /\ InitCommon
  /\ matchCase = Null
  /\ gridCase = Null
  /\ historyCase = Null
  /\ apiKey \in BOOLEAN
  /\ stock = MaxListings
  /\ \E rq \in Requests :
       /\ req = [r \in RunIds |-> IF r = 1 THEN rq ELSE Null]
       /\ pc = [r \in RunIds |->
                 IF r # 1 THEN "idle"
                 ELSE IF rq.route = "csv" THEN "taskLoop" ELSE "createSearch"]

(***************************************************************************)
(* Helpers of the handlers.                                                *)
(***************************************************************************)
Route(r) == req[r].route
queryData(r) == req[r].queryData

\* the text of 'Brand not found', kept as one token
BrandNotFound == <<"Brand not found">>

\* the text of 'Starting...', kept as one token
Starting == <<"Starting...">>

\* res.write of one server-sent event / res.json of one response
Send(r, msg) == out' = [out EXCEPT ![r] = Append(@, msg)]

\* sendProgress({type: 'progress', ...}) of the streaming route; the other
\* routes report no progress
sendProgress(r, currentQuery, processedQueries, apiCallsMade, currentPage) ==
  IF Route(r) = "stream"
  THEN Send(r, [type |-> "progress",
                currentQuery |-> currentQuery,
                totalQueries |-> Len(queryData(r)),
                processedQueries |-> processedQueries,
                apiCallsMade |-> apiCallsMade,
                currentPage |-> currentPage])
  ELSE UNCHANGED out

\* variant: after a page the event counts the tasks already finished
processedAfterPage_Finished(taskIndex) == taskIndex

\* processedQueries of the progress event that follows a page: i + 1
processedAfterPage(taskIndex) == taskIndex + 1

\* processedQueries of the progress event at the head of a task: i + 1
processedAtTaskStart(taskIndex) == taskIndex + 1

\* payload.ll of searchSerperPlaces
payloadLl(lat, lng) ==
  IF lat # Undefined /\ lng # Undefined
  THEN Str(<<"@", lat.v, ",", lng.v, ",14z">>)
  ELSE Undefined

\* variant: the page number carries on from the previous grid point
startPage_Continued(previous) == previous

\* the page number at the start of a grid point, given the number the
\* handler held before: let page = 1
startPage(previous) == 1

\* variant: the rank counter carries on from the previous grid point
startQueryResultIndex_Continued(previous) == previous

\* the rank counter at the start of a grid point, given the counter the
\* handler held before: let queryResultIndex = 1
startQueryResultIndex(previous) == 1

\* variant: the call is counted after the break on an empty page
countedApiCalls_AfterBreak(calls, places) ==
  IF places = <<>> THEN calls ELSE calls + 1

\* totalApiCalls++ on the answer of the upstream, before places is looked at
countedApiCalls(calls, places) == calls + 1

\* the rank counter after one listing: queryResultIndex++
nextQueryResultIndex(idx) == idx + 1

\* variant: the rank counter restarts on every page
rankOfListing_PerPage(idx, k) == k

\* the rank of the k-th listing of a page that starts at rank idx
RECURSIVE rankOfListing(_, _)
rankOfListing(idx, k) ==
  IF k = 1 THEN idx ELSE nextQueryResultIndex(rankOfListing(idx, k - 1))

\* variant: the observation is not tagged with the grid point searched
placeResult_Untagged(place, row, idx, deviceType, point, task, grid, pageNo) ==
  [title |-> place.title,
   query |-> row.Keywords,
   brand |-> row.Brand,
   branch |-> row.Branch,
   query_result_number |-> Num(idx),
   brand_match |-> brandMatch(normTitleOf(titleOf(place)),
                              normalizeBrandName(row.Brand),
                              normalizeBranchName(row.Branch)),
   is_local_pack |-> isLocalPack(idx),
   local_pack_position |-> localPackPosition(idx),
   device_type |-> deviceType,
   search_latitude |-> Undefined,
   search_longitude |-> Undefined,
   task |-> task, grid |-> grid, pageNo |-> pageNo]

\* allResults.push({...place, query, brand, branch, ...}); the fields task,
\* grid and pageNo record the loop position of the push (i + 1, the position
\* of gridPoint in gridPoints, page) and are read by no action
placeResult(place, row, idx, deviceType, point, task, grid, pageNo) ==
  [title |-> place.title,
   query |-> row.Keywords,
   brand |-> row.Brand,
   branch |-> row.Branch,
   query_result_number |-> Num(idx),
   brand_match |-> brandMatch(normTitleOf(titleOf(place)),
                              normalizeBrandName(row.Brand),
                              normalizeBranchName(row.Branch)),
   is_local_pack |-> isLocalPack(idx),
   local_pack_position |-> localPackPosition(idx),
   device_type |-> deviceType,
   search_latitude |-> point.lat,
   search_longitude |-> point.lng,
   task |-> task, grid |-> grid, pageNo |-> pageNo]

\* the 'Brand not found' entry pushed for a task without a match
noMatchEntry(row, task) ==
  [title |-> Str(BrandNotFound),
   query |-> row.Keywords,
   brand |-> row.Brand,
   branch |-> row.Branch,
   query_result_number |-> Str(<<"N/A">>),
   brand_match |-> FALSE,
   task |-> task]

\* variant: the entry is pushed whether or not a listing matched
withNoMatchEntry_Always(results, found, row, task) ==
  Append(results, noMatchEntry(row, task))

\* if (!foundBrandMatch) allResults.push({title: 'Brand not found', ...})
withNoMatchEntry(results, found, row, task) ==
  IF ~found THEN Append(results, noMatchEntry(row, task)) ELSE results

IsObservation(e) == IsNumber(e.query_result_number)

\* the listings the upstream has returned to run r
ListingsServed(r) ==
  Cardinality({k \in 1..Len(allResults[r]) : IsObservation(allResults[r][k])})

\* the listings the upstream still has for run r: its stock less what it
\* has returned to the runs it serves
Supply(r) == stock - (ListingsServed(1) + ListingsServed(2))

\* two requests ask the upstream the same
SameRequest(a, b) == a.q = b.q /\ a.page = b.page /\ a.ll = b.ll

\* the pages the upstream has returned to the other run for what the
\* outstanding request of run r asks
PagesReturnedBefore(r) ==
  UNION {{fetchLog[q][m].places : m \in
            {n \in 1..Len(fetchLog[q]) :
               /\ fetchLog[q][n].outcome = "ok"
               /\ SameRequest(fetchLog[q][n], fetchLog[r][Len(fetchLog[r])])}} :
         q \in RunIds \ {r}}

\* the pages with listings the upstream may return to the outstanding
\* request of run r: for the example keyword one page of five listings and
\* nothing after it, for the other keywords any page within the supply;
\* a request the other run has made already is answered as it was then
PagesOffered(r) ==
  IF queryData(r)[i[r] + 1].Keywords = ExampleRow.Keywords
  THEN IF page[r] = 1 THEN ExamplePages ELSE {}
  ELSE LET supply == Supply(r)
           returned == PagesReturnedBefore(r)
       IN {places \in PagesUpTo(MaxPlaces) :
             /\ places # <<>>
             /\ Len(places) <= supply
             /\ \A before \in returned : places = before}

(***************************************************************************)
(* The handlers, one action per stretch of code between two awaits.        *)
(***************************************************************************)
\* storage.createSearch, then (stream) the 'Starting...' progress event
CreateSearch(r) ==
  /\ pc[r] = "createSearch"
  /\ \/ /\ searches' = Append(searches,
                              [status |-> "processing",
                               totalQueries |-> Len(queryData(r)),
                               totalResults |-> 0,
                               totalBrandMatches |-> 0,
                               totalLocalPackMatches |-> 0,
                               apiCallsMade |-> 0])
        /\ searchId' = [searchId EXCEPT ![r] = Str(Len(searches) + 1)]
        /\ sendProgress(r, Starting, 0, 0, 1)
        /\ pc' = [pc EXCEPT ![r] = "taskLoop"]
        /\ UNCHANGED error
     \/ /\ error' = [error EXCEPT ![r] = Str(ErrStorage)]
        /\ pc' = [pc EXCEPT ![r] = "catch"]
        /\ UNCHANGED <<searches, searchId, out>>
  /\ UNCHANGED <<req, i, gridIndex, page, queryResultIndex, foundBrandMatch,
                 allResults, totalApiCalls, sink, upstream, timers, environment,
                 cases, client>>

\* for (let i = 0; i < queryData.length; i++): the head of one task
TaskLoop(r) ==
  /\ pc[r] = "taskLoop"
  /\ i[r] < Len(queryData(r))
  /\ sendProgress(r, queryData(r)[i[r] + 1].Keywords,
                  processedAtTaskStart(i[r]), totalApiCalls[r], 1)
  /\ foundBrandMatch' = [foundBrandMatch EXCEPT ![r] = FALSE]
  /\ gridIndex' = [gridIndex EXCEPT ![r] = 1]
  /\ page' = [page EXCEPT ![r] = startPage(@)]
  /\ queryResultIndex' =
       [queryResultIndex EXCEPT ![r] = startQueryResultIndex(@)]
  /\ pc' = [pc EXCEPT ![r] = "fetch"]
  /\ UNCHANGED <<req, searchId, i, allResults, totalApiCalls, error,
                 storageVars, upstream, timers, environment, cases, client>>

\* variant: the request is sent and the handler does not wait for its answer
Fetch_NotAwaited(r) ==
  /\ pc[r] = "fetch"
  /\ apiKey
  /\ LET point == gridPoints(req[r])[gridIndex[r]]
         request == [q |-> queryData(r)[i[r] + 1].Keywords,
                     page |-> page[r],
                     ll |-> payloadLl(point.lat, point.lng),
                     task |-> i[r] + 1,
                     grid |-> gridIndex[r],
                     outcome |-> "pending",
                     places |-> <<>>]
     IN /\ fetchLog' = [fetchLog EXCEPT ![r] = Append(@, request)]
        /\ inflight' = inflight \cup {[run |-> r, n |-> Len(fetchLog[r]) + 1]}
  /\ page' = [page EXCEPT ![r] = @ + 1]
  /\ UNCHANGED <<req, pc, searchId, i, gridIndex, queryResultIndex,
                 foundBrandMatch, allResults, totalApiCalls, error, out,
                 storageVars, timers, environment, cases, client>>

\* searchSerperPlaces up to its await of fetch()
Fetch(r) ==
  /\ pc[r] = "fetch"
  /\ IF ~apiKey
     THEN /\ error' = [error EXCEPT ![r] = Str(ErrNoKey)]
          /\ pc' = [pc EXCEPT ![r] = "catch"]
          /\ UNCHANGED upstream
     ELSE LET point == gridPoints(req[r])[gridIndex[r]]
              request == [q |-> queryData(r)[i[r] + 1].Keywords,
                          page |-> page[r],
                          ll |-> payloadLl(point.lat, point.lng),
                          task |-> i[r] + 1,
                          grid |-> gridIndex[r],
                          outcome |-> "pending",
                          places |-> <<>>]
          IN /\ fetchLog' = [fetchLog EXCEPT ![r] = Append(@, request)]
             /\ inflight' = inflight \cup
                              {[run |-> r, n |-> Len(fetchLog[r]) + 1]}
             /\ pc' = [pc EXCEPT ![r] = "awaitFetch"]
             /\ UNCHANGED error
  /\ UNCHANGED <<req, searchId, i, gridIndex, page, queryResultIndex,
                 foundBrandMatch, allResults, totalApiCalls, out,
                 storageVars, timers, environment, cases, client>>

\* the upstream answers an outstanding request of run r: with a page of
\* listings (data.places) when the outcome is "ok"
Answered(r, outcome, places) ==
  \E m \in inflight :
    /\ m.run = r
    /\ inflight' = inflight \ {m}
    /\ fetchLog' = [fetchLog EXCEPT ![r][m.n].outcome = outcome,
                                    ![r][m.n].places = places]

\* variant: a failed page is skipped and the loop carries on after the delay
FetchFail_Skipped(r) ==
  /\ pc[r] = "awaitFetch"
  /\ Answered(r, "failed", <<>>)
  /\ page' = [page EXCEPT ![r] = @ + 1]
  /\ pc' = [pc EXCEPT ![r] = "delay"]
  /\ UNCHANGED <<req, searchId, i, gridIndex, queryResultIndex,
                 foundBrandMatch, allResults, totalApiCalls, error, out,
                 storageVars, timers, environment, cases, client>>

\* the response is not ok: searchSerperPlaces throws
FetchFail(r) ==
  /\ pc[r] = "awaitFetch"
  /\ Answered(r, "failed", <<>>)
  /\ error' = [error EXCEPT ![r] = Str(ErrSerper)]
  /\ pc' = [pc EXCEPT ![r] = "catch"]
  /\ UNCHANGED <<req, searchId, i, gridIndex, page, queryResultIndex,
                 foundBrandMatch, allResults, totalApiCalls, out,
                 storageVars, timers, environment, cases, client>>

\* an empty page: break, then the next grid point or the end of the task
PageEmpty(r) ==
  /\ pc[r] = "awaitFetch"
  /\ Answered(r, "ok", <<>>)
  /\ totalApiCalls' =
       [totalApiCalls EXCEPT ![r] = countedApiCalls(@, <<>>)]
  /\ IF gridIndex[r] < Len(gridPoints(req[r]))
     THEN /\ gridIndex' = [gridIndex EXCEPT ![r] = @ + 1]
          /\ page' = [page EXCEPT ![r] = startPage(@)]
          /\ queryResultIndex' =
               [queryResultIndex EXCEPT ![r] = startQueryResultIndex(@)]
          /\ pc' = [pc EXCEPT ![r] = "fetch"]
          /\ UNCHANGED <<i, allResults>>
     ELSE /\ allResults' =
               [allResults EXCEPT ![r] =
                  withNoMatchEntry(@, foundBrandMatch[r],
                                   queryData(r)[i[r] + 1], i[r] + 1)]
          /\ i' = [i EXCEPT ![r] = @ + 1]
          /\ pc' = [pc EXCEPT ![r] = "taskLoop"]
          /\ UNCHANGED <<gridIndex, page, queryResultIndex>>
  /\ UNCHANGED <<req, searchId, foundBrandMatch, error, out, storageVars,
                 timers, environment, cases, client>>

\* a page of listings: classify and push each, page++, progress event
PageListings(r) ==
  /\ pc[r] = "awaitFetch"
  /\ \E places \in PagesOffered(r) :
       /\ Answered(r, "ok", places)
       /\ LET row == queryData(r)[i[r] + 1]
              point == gridPoints(req[r])[gridIndex[r]]
              pushed == [k \in 1..Len(places) |->
                           placeResult(places[k], row,
                                       rankOfListing(queryResultIndex[r], k),
                                       "desktop", point,
                                       i[r] + 1, gridIndex[r], page[r])]
          IN /\ allResults' = [allResults EXCEPT ![r] = @ \o pushed]
             /\ foundBrandMatch' =
                  [foundBrandMatch EXCEPT ![r] =
                     @ \/ \E k \in 1..Len(pushed) : pushed[k].brand_match]
             /\ queryResultIndex' =
                  [queryResultIndex EXCEPT ![r] =
                     rankOfListing(@, Len(places) + 1)]
       /\ totalApiCalls' =
            [totalApiCalls EXCEPT ![r] = countedApiCalls(@, places)]
       /\ page' = [page EXCEPT ![r] = @ + 1]
       /\ sendProgress(r, queryData(r)[i[r] + 1].Keywords,
                       processedAfterPage(i[r]), totalApiCalls'[r], page'[r])
       /\ pc' = [pc EXCEPT ![r] = "delay"]
  /\ UNCHANGED <<req, searchId, i, gridIndex, error, storageVars, timers,
                 environment, cases, client>>

\* variant: the page loop has a cap of two pages; after the delay that
\* follows the second page the handler goes on as it does after a break
Delay_Capped(r) ==
  /\ pc[r] = "delay"
  /\ timers' = [timers EXCEPT ![r] = Append(@, Len(fetchLog[r]))]
  /\ IF page[r] <= 2
     THEN /\ pc' = [pc EXCEPT ![r] = "fetch"]
          /\ UNCHANGED <<i, gridIndex, page, queryResultIndex, allResults>>
     ELSE IF gridIndex[r] < Len(gridPoints(req[r]))
     THEN /\ gridIndex' = [gridIndex EXCEPT ![r] = @ + 1]
          /\ page' = [page EXCEPT ![r] = startPage(@)]
          /\ queryResultIndex' =
               [queryResultIndex EXCEPT ![r] = startQueryResultIndex(@)]
          /\ pc' = [pc EXCEPT ![r] = "fetch"]
          /\ UNCHANGED <<i, allResults>>
     ELSE /\ allResults' =
               [allResults EXCEPT ![r] =
                  withNoMatchEntry(@, foundBrandMatch[r],
                                   queryData(r)[i[r] + 1], i[r] + 1)]
          /\ i' = [i EXCEPT ![r] = @ + 1]
          /\ pc' = [pc EXCEPT ![r] = "taskLoop"]
          /\ UNCHANGED <<gridIndex, page, queryResultIndex>>
  /\ UNCHANGED <<req, searchId, foundBrandMatch, totalApiCalls, error, out,
                 storageVars, upstream, environment, cases, client>>

\* await new Promise(resolve => setTimeout(resolve, 1000)), then the head
\* of while (true): the next page of the same grid point
Delay(r) ==
  /\ pc[r] = "delay"
  /\ timers' = [timers EXCEPT ![r] = Append(@, Len(fetchLog[r]))]
  /\ pc' = [pc EXCEPT ![r] = "fetch"]
  /\ UNCHANGED <<req, searchId, i, gridIndex, page, queryResultIndex,
                 foundBrandMatch, allResults, totalApiCalls, error, out,
                 storageVars, upstream, environment, cases, client>>

(***************************************************************************)
(* Persistence and the terminal reports.                                   *)
(***************************************************************************)
\* a row of rankingResultsToSave
rankingRow(sid, e, deviceType) ==
  [searchId |-> sid,
   query |-> e.query,
   brand |-> e.brand,
   branch |-> e.branch,
   rankingPosition |->
     IF IsNumber(e.query_result_number) THEN e.query_result_number ELSE Null,
   isLocalPack |-> e.is_local_pack,
   localPackPosition |-> OrElse(e.local_pack_position, Null),
   deviceType |-> deviceType,
   searchLatitude |->
     IF Truthy(e.search_latitude) THEN String(e.search_latitude) ELSE Null,
   searchLongitude |->
     IF Truthy(e.search_longitude) THEN String(e.search_longitude) ELSE Null,
   title |-> OrElse(e.title, Null),
   brandMatch |-> e.brand_match]

\* variant: the row of a 'Brand not found' entry keeps the entry's own
\* query_result_number and brand_match
noMatchRow_AsEntered(sid, e, deviceType) ==
  [searchId |-> sid,
   query |-> e.query,
   brand |-> e.brand,
   branch |-> e.branch,
   rankingPosition |-> e.query_result_number,
   isLocalPack |-> FALSE,
   localPackPosition |-> Null,
   deviceType |-> deviceType,
   searchLatitude |-> Null,
   searchLongitude |-> Null,
   title |-> Str(BrandNotFound),
   brandMatch |-> e.brand_match]

\* a row of noMatchResults
noMatchRow(sid, e, deviceType) ==
  [searchId |-> sid,
   query |-> e.query,
   brand |-> e.brand,
   branch |-> e.branch,
   rankingPosition |-> Null,
   isLocalPack |-> FALSE,
   localPackPosition |-> Null,
   deviceType |-> deviceType,
   searchLatitude |-> Null,
   searchLongitude |-> Null,
   title |-> Str(BrandNotFound),
   brandMatch |-> FALSE]

\* variant: the rows carry the id of the search record created last, as
\* they would if currentSearchId were shared by the invocations
rowsToSave_LatestSearch(sid, results, deviceType) ==
  LET numbered == SelectSeq(results, LAMBDA e : IsNumber(e.query_result_number))
      others == SelectSeq(results, LAMBDA e : ~IsNumber(e.query_result_number))
      latest == Str(Len(searches))
  IN [k \in 1..Len(numbered) |-> rankingRow(latest, numbered[k], deviceType)]
     \o [k \in 1..Len(others) |-> noMatchRow(latest, others[k], deviceType)]

\* [...rankingResultsToSave, ...noMatchResults]
rowsToSave(sid, results, deviceType) ==
  LET numbered == SelectSeq(results, LAMBDA e : IsNumber(e.query_result_number))
      others == SelectSeq(results, LAMBDA e : ~IsNumber(e.query_result_number))
  IN [k \in 1..Len(numbered) |-> rankingRow(sid, numbered[k], deviceType)]
     \o [k \in 1..Len(others) |-> noMatchRow(sid, others[k], deviceType)]

\* the number of entries of a list that satisfy Test
CountIf(list, Test(_)) == Cardinality({k \in 1..Len(list) : Test(list[k])})

\* variant: every entry of the local pack is counted as a local-pack match
completedSummary_AllLocalPack(record, results, apiCalls) ==
  [record EXCEPT
     !.totalResults = Len(results),
     !.totalBrandMatches = CountIf(results, LAMBDA e : e.brand_match),
     !.totalLocalPackMatches =
        CountIf(results, LAMBDA e : IsObservation(e) /\ e.is_local_pack),
     !.apiCallsMade = apiCalls,
     !.status = "completed"]

\* the summary of storage.updateSearch on completion
completedSummary(record, results, apiCalls) ==
  [record EXCEPT
     !.totalResults = Len(results),
     !.totalBrandMatches = CountIf(results, LAMBDA e : e.brand_match),
     !.totalLocalPackMatches =
        CountIf(results, LAMBDA e : IsObservation(e) /\ e.is_local_pack
                                     /\ e.brand_match),
     !.apiCallsMade = apiCalls,
     !.status = "completed"]

\* variant: the plain route reports only the brand matches as allPlaces
completion_CsvMatchesOnly(r) ==
  [type |-> IF Route(r) = "stream" THEN "complete" ELSE "response",
   status |-> 200,
   searchId |-> searchId[r],
   allPlaces |-> IF Route(r) = "csv"
                 THEN SelectSeq(allResults[r], LAMBDA e : e.brand_match)
                 ELSE allResults[r],
   queriesProcessed |-> Len(queryData(r)),
   placesFound |-> Len(allResults[r]),
   apiCallsMade |-> totalApiCalls[r]]

\* the completion report: the 'complete' event of the streaming route, the
\* success response of the other two
completion(r) ==
  [type |-> IF Route(r) = "stream" THEN "complete" ELSE "response",
   status |-> 200,
   searchId |-> searchId[r],
   allPlaces |-> allResults[r],
   queriesProcessed |-> Len(queryData(r)),
   placesFound |-> Len(allResults[r]),
   apiCallsMade |-> totalApiCalls[r]]

\* variant: the report carries the fallback text, not the error's message
errorMessage_Fallback(r) ==
  Str(IF Route(r) = "rerun" THEN <<"Failed to rerun campaign">>
      ELSE <<"Failed to process CSV file">>)

\* error.message || fallback
errorMessage(r) ==
  OrElse(error[r],
         Str(IF Route(r) = "rerun" THEN <<"Failed to rerun campaign">>
             ELSE <<"Failed to process CSV file">>))

\* the error report: the 'error' event of the streaming route, the status
\* 500 response of the other two
failure(r) ==
  [type |-> IF Route(r) = "stream" THEN "error" ELSE "response",
   status |-> 500,
   error |-> errorMessage(r).v]

\* /api/process-csv after its task loop: res.json({success: true, ...})
RespondCsv(r) ==
  /\ pc[r] = "taskLoop"
  /\ i[r] = Len(queryData(r))
  /\ Route(r) = "csv"
  /\ Send(r, completion(r))
  /\ pc' = [pc EXCEPT ![r] = "done"]
  /\ UNCHANGED <<req, searchId, i, gridIndex, page, queryResultIndex,
                 foundBrandMatch, allResults, totalApiCalls, error,
                 storageVars, upstream, timers, environment, cases, client>>

\* after the task loop of the streaming and rerun routes:
\* storage.createRankingResults([...rankingResultsToSave, ...noMatchResults]);
\* a failure is swallowed by the streaming route and thrown by the rerun
SaveResults(r) ==
  /\ pc[r] = "taskLoop"
  /\ i[r] = Len(queryData(r))
  /\ Route(r) # "csv"
  /\ \/ /\ sink' = Append(sink, rowsToSave(searchId[r], allResults[r],
                                           "desktop"))
        /\ pc' = [pc EXCEPT ![r] = "updateSearch"]
        /\ UNCHANGED <<error, out>>
     \/ /\ Route(r) = "stream"
        /\ Send(r, completion(r))
        /\ pc' = [pc EXCEPT ![r] = "done"]
        /\ UNCHANGED <<error, sink>>
     \/ /\ Route(r) = "rerun"
        /\ error' = [error EXCEPT ![r] = Str(ErrStorage)]
        /\ pc' = [pc EXCEPT ![r] = "catch"]
        /\ UNCHANGED <<out, sink>>
  /\ UNCHANGED <<req, searchId, i, gridIndex, page, queryResultIndex,
                 foundBrandMatch, allResults, totalApiCalls, searches,
                 upstream, timers, environment, cases, client>>

\* storage.updateSearch(searchId, {..., status: 'completed'}), then the
\* completion report
UpdateSearch(r) ==
  /\ pc[r] = "updateSearch"
  /\ \/ /\ searches' = [searches EXCEPT ![searchId[r].v] =
                          completedSummary(@, allResults[r], totalApiCalls[r])]
        /\ Send(r, completion(r))
        /\ pc' = [pc EXCEPT ![r] = "done"]
        /\ UNCHANGED error
     \/ /\ Route(r) = "stream"
        /\ Send(r, completion(r))
        /\ pc' = [pc EXCEPT ![r] = "done"]
        /\ UNCHANGED <<error, searches>>
     \/ /\ Route(r) = "rerun"
        /\ error' = [error EXCEPT ![r] = Str(ErrStorage)]
        /\ pc' = [pc EXCEPT ![r] = "catch"]
        /\ UNCHANGED <<out, searches>>
  /\ UNCHANGED <<req, searchId, i, gridIndex, page, queryResultIndex,
                 foundBrandMatch, allResults, totalApiCalls, sink,
                 upstream, timers, environment, cases, client>>

\* variant: the catch block records the counts of the partial result list
errorSummary_Partial(record, results) ==
  [record EXCEPT !.status = "error", !.totalResults = Len(results)]

\* storage.updateSearch(searchId, {status: 'error'})
errorSummary(record, results) == [record EXCEPT !.status = "error"]

\* variant: the catch block ends the response without a report
Catch_Silent(r) ==
  /\ pc[r] = "catch"
  /\ IF Route(r) = "stream" /\ searchId[r] # Null
     THEN \/ searches' = [searches EXCEPT ![searchId[r].v] =
                               errorSummary(@, allResults[r])]
          \/ UNCHANGED searches
     ELSE UNCHANGED searches
  /\ pc' = [pc EXCEPT ![r] = "done"]
  /\ UNCHANGED <<req, searchId, i, gridIndex, page, queryResultIndex,
                 foundBrandMatch, allResults, totalApiCalls, error, out, sink,
                 upstream, timers, environment, cases, client>>

\* the catch block of a handler: the streaming route marks its search
\* record (a failure of that update is swallowed), every route reports
Catch(r) ==
  /\ pc[r] = "catch"
  /\ IF Route(r) = "stream" /\ searchId[r] # Null
     THEN \/ searches' = [searches EXCEPT ![searchId[r].v] =
                               errorSummary(@, allResults[r])]
          \/ UNCHANGED searches
     ELSE UNCHANGED searches
  /\ Send(r, failure(r))
  /\ pc' = [pc EXCEPT ![r] = "done"]
  /\ UNCHANGED <<req, searchId, i, gridIndex, page, queryResultIndex,
                 foundBrandMatch, allResults, totalApiCalls, error, sink,
                 upstream, timers, environment, cases, client>>

\* the steps of run r
RunNext(r) ==
  \/ CreateSearch(r)
  \/ TaskLoop(r)
  \/ Fetch(r)
  \/ FetchFail(r)
  \/ PageEmpty(r)
  \/ PageListings(r)
  \/ Delay(r)
  \/ RespondCsv(r)
  \/ SaveResults(r)
  \/ UpdateSearch(r)
  \/ Catch(r)

Next == RunNext(1)

Spec == Init /\ [][Next]_vars

(***************************************************************************)
(* The stored specification: one request is served by an entry point that  *)
(* keeps a search record (/api/process-csv-stream, the rerun), with the    *)
(* credential configured.                                                  *)
(***************************************************************************)
\* the steps of the handlers that keep a search record
PersistingNext(r) ==
  \/ CreateSearch(r)
  \/ TaskLoop(r)
  \/ Fetch(r)
  \/ FetchFail(r)
  \/ PageEmpty(r)
  \/ PageListings(r)
  \/ Delay(r)
  \/ SaveResults(r)
  \/ UpdateSearch(r)
  \/ Catch(r)

InitStored ==
  /\ InitCommon
  /\ matchCase = Null
  /\ gridCase = Null
  /\ historyCase = Null
  /\ apiKey = TRUE
  /\ stock = MaxListings
  /\ \E rq \in {request \in Requests : request.route # "csv"} :
       req = [r \in RunIds |-> IF r = 1 THEN rq ELSE Null]
  /\ pc = [r \in RunIds |-> IF r = 1 THEN "createSearch" ELSE "idle"]

NextStored == PersistingNext(1)

SpecStored == InitStored /\ [][NextStored]_vars

(***************************************************************************)
(* The matching specification: one listing title is classified against    *)
(* one brand / branch pair, by the operators the handlers use.             *)
(***************************************************************************)
\* brand and branch names
Names == StringsUpTo(MaxNameLen)

\* place.title of a listing: a string, or missing
ListingTitles == {Str(s) : s \in StringsUpTo(MaxTitleLen)} \cup {Undefined}

InitMatch ==
  /\ InitCommon
  /\ apiKey = TRUE
  /\ stock = 0
  /\ req = [r \in RunIds |-> Null]
  /\ pc = [r \in RunIds |-> "idle"]
  /\ matchCase \in [brand : Names, branch : Names, result : {<<>>}]
  /\ gridCase = Null
  /\ historyCase = Null

\* the body of for (const place of places), for one listing
ClassifyListing ==
  /\ matchCase # Null
  /\ matchCase.result = <<>>
  /\ \E title \in ListingTitles :
       matchCase' =
         [matchCase EXCEPT !.result =
            <<placeResult([title |-> title],
                          [Keywords |-> <<"k">>, Brand |-> matchCase.brand,
                           Branch |-> matchCase.branch],
                          1, "desktop", [lat |-> Undefined, lng |-> Undefined],
                          1, 1, 1)>>]
  /\ UNCHANGED <<req, locals, storageVars, upstream, timers, environment,
                 gridCase, historyCase, client>>

NextMatch == ClassifyListing

SpecMatch == InitMatch /\ [][NextMatch]_vars

(***************************************************************************)
(* The spelling specification: one listing title is classified against one *)
(* brand and two spellings of a branch name that differ in punctuation     *)
(* only, by the operators the handlers use.                                *)
(***************************************************************************)
\* all strings over the characters of alphabet of length at most n
StringsOver(alphabet, n) == UNION {[1..k -> alphabet] : k \in 0..n}

\* branch names: digits and punctuation marks
SpelledBranches == StringsOver({"1", "."}, MaxBranchLen)

\* listing titles: letters, digits and punctuation marks
SpelledTitles == {Str(s) : s \in StringsOver({"A", "1", "."}, MaxSpelledTitleLen)}

\* a branch name without its punctuation marks
RECURSIVE Unpunctuated(_)
Unpunctuated(text) ==
  IF text = <<>> THEN <<>>
  ELSE (IF Head(text) = "." THEN <<>> ELSE <<Head(text)>>)
       \o Unpunctuated(Tail(text))

InitSpelling ==
  /\ InitCommon
  /\ apiKey = TRUE
  /\ stock = 0
  /\ req = [r \in RunIds |-> Null]
  /\ pc = [r \in RunIds |-> "idle"]
  /\ gridCase = Null
  /\ historyCase = Null
  /\ \E branch, spelling \in SpelledBranches :
       /\ Unpunctuated(branch) = Unpunctuated(spelling)
       /\ matchCase = [brand |-> <<"A">>, branch |-> branch,
                       spelling |-> spelling, result |-> <<>>]

\* the body of for (const place of places), for one listing, in a run whose
\* task has the branch and in a run whose task has the other spelling
ClassifySpellings ==
  /\ matchCase # Null
  /\ matchCase.result = <<>>
  /\ \E title \in SpelledTitles :
       matchCase' =
         [matchCase EXCEPT !.result =
            <<placeResult([title |-> title],
                          [Keywords |-> <<"k">>, Brand |-> matchCase.brand,
                           Branch |-> matchCase.branch],
                          1, "desktop", [lat |-> Undefined, lng |-> Undefined],
                          1, 1, 1),
              placeResult([title |-> title],
                          [Keywords |-> <<"k">>, Brand |-> matchCase.brand,
                           Branch |-> matchCase.spelling],
                          1, "desktop", [lat |-> Undefined, lng |-> Undefined],
                          1, 1, 1)>>]
  /\ UNCHANGED <<req, locals, storageVars, upstream, timers, environment,
                 gridCase, historyCase, client>>

NextSpelling == ClassifySpellings

SpecSpelling == InitSpelling /\ [][NextSpelling]_vars

(***************************************************************************)
(* The concurrent specification: two requests are served at the same time, *)
(* each by its own invocation of a handler; the invocations interleave at  *)
(* their awaits and share the storage, the upstream and the environment.   *)
(***************************************************************************)
\* the requests of the concurrent specification: one task, no geo grid
RequestOf(route, row) ==
  [route |-> route, queryData |-> <<row>>, geoGridEnabled |-> FALSE,
   geoGridConfig |-> Null]

InitTwo ==
  /\ InitCommon
  /\ matchCase = Null
  /\ gridCase = Null
  /\ historyCase = Null
  /\ apiKey = TRUE
  /\ stock = MaxSharedListings
  /\ \E route1, route2 \in Routes :
       /\ req = [r \in RunIds |->
                   IF r = 1 THEN RequestOf(route1, QueryRowAt(1))
                   ELSE RequestOf(route2, QueryRowAt(2))]
       /\ pc = [r \in RunIds |->
                  IF req[r].route = "csv" THEN "taskLoop" ELSE "createSearch"]

NextTwo == \E r \in RunIds : RunNext(r)

SpecTwo == InitTwo /\ [][NextTwo]_vars

(***************************************************************************)
(* The geo-grid specification: generateGeoGrid is applied to one grid      *)
(* request.  The radii are multiples of 3 km, for which the steps of the   *)
(* modelled grid sizes are whole numbers of coordinate units.              *)
(***************************************************************************)
\* geoGridConfig: centre, radius and gridSize (at least 2)
GridSpecs ==
  [centerLat : {-60 * Degree, 0, 60 * Degree},
   centerLng : {-Degree, 0, Degree},
   radiusKm : {3 * k : k \in 1..MaxRadiusSteps},
   gridSize : 2..MaxGridSize]

InitGrid ==
  /\ InitCommon
  /\ apiKey = TRUE
  /\ stock = 0
  /\ req = [r \in RunIds |-> Null]
  /\ pc = [r \in RunIds |-> "idle"]
  /\ matchCase = Null
  /\ gridCase \in [spec : GridSpecs, points : {<<>>}]
  /\ historyCase = Null

\* const gridPoints = generateGeoGrid(centerLat, centerLng, radiusKm, gridSize)
GenerateGrid ==
  /\ gridCase # Null
  /\ gridCase.points = <<>>
  /\ gridCase' =
       [gridCase EXCEPT !.points =
          generateGeoGrid(gridCase.spec.centerLat, gridCase.spec.centerLng,
                          gridCase.spec.radiusKm, gridCase.spec.gridSize)]
  /\ UNCHANGED <<req, locals, storageVars, upstream, timers, environment,
                 matchCase, historyCase, client>>

NextGrid == GenerateGrid

SpecGrid == InitGrid /\ [][NextGrid]_vars

(***************************************************************************)
(* The example specification: one request with the task of the worked      *)
(* example, without geo grid, on any of the three routes.                  *)
(***************************************************************************)
InitExample ==
  /\ InitCommon
  /\ matchCase = Null
  /\ gridCase = Null
  /\ historyCase = Null
  /\ apiKey = TRUE
  /\ stock = 5
  /\ \E route \in Routes :
       /\ req = [r \in RunIds |->
                   IF r = 1 THEN RequestOf(route, ExampleRow) ELSE Null]
       /\ pc = [r \in RunIds |->
                  IF r # 1 THEN "idle"
                  ELSE IF route = "csv" THEN "taskLoop" ELSE "createSearch"]

NextExample == RunNext(1)

SpecExample == InitExample /\ [][NextExample]_vars

(***************************************************************************)
(* The input specification: a handler from the point where it obtains its  *)
(* task list, by parseCSV from the uploaded file (streaming and plain      *)
(* routes) or from the stored campaign (rerun).                            *)
(***************************************************************************)
InitInput ==
  /\ InitCommon
  /\ matchCase = Null
  /\ gridCase = Null
  /\ historyCase = Null
  /\ apiKey = TRUE
  /\ stock = MaxInputListings
  /\ \E route \in Routes, input \in Inputs :
       req = [r \in RunIds |->
                IF r = 1
                THEN [route |-> route, input |-> input, queryData |-> <<>>,
                      geoGridEnabled |-> FALSE, geoGridConfig |-> Null]
                ELSE Null]
  /\ pc = [r \in RunIds |-> IF r = 1 THEN "readInput" ELSE "idle"]

\* const queryData = parseCSV(csvContent) of the two upload routes, which
\* throws when no row is valid; const queryData = campaign.queryData of the
\* rerun route
ReadInput(r) ==
  /\ pc[r] = "readInput"
  /\ LET rows == IF Route(r) = "rerun" THEN req[r].input
                 ELSE parseCSV(req[r].input)
     IN IF Route(r) # "rerun" /\ rows = <<>>
        THEN /\ error' = [error EXCEPT ![r] = Str(ErrNoRows)]
             /\ pc' = [pc EXCEPT ![r] = "catch"]
             /\ UNCHANGED req
        ELSE /\ req' = [req EXCEPT ![r].queryData = rows]
             /\ pc' = [pc EXCEPT ![r] =
                         IF Route(r) = "csv" THEN "taskLoop"
                         ELSE "createSearch"]
             /\ UNCHANGED error
  /\ UNCHANGED <<searchId, i, gridIndex, page, queryResultIndex,
                 foundBrandMatch, allResults, totalApiCalls, out,
                 storageVars, upstream, timers, environment, cases, client>>

NextInput == ReadInput(1) \/ RunNext(1)

SpecInput == InitInput /\ [][NextInput]_vars

(***************************************************************************)
(* The client specification: the dashboard posts a file to the streaming   *)
(* route and, on the 'complete' event, collapses data.allPlaces into its   *)
(* best-match view, one entry of queryMap per query key.                   *)
(***************************************************************************)
\* the rows of the uploaded file: the two rows of QueryRowAt and two rows
\* with a vertical bar in a field
ClientRows ==
  { QueryRowAt(1),
    QueryRowAt(2),
    [Keywords |-> <<"k">>, Brand |-> <<"A", "|", "1">>, Branch |-> <<"1">>],
    [Keywords |-> <<"k", "|", "A">>, Brand |-> <<"1">>, Branch |-> <<"1">>] }

\* the task lists of the client specification (a row may occur twice)
ClientQueryLists == UNION {[1..n -> ClientRows] : n \in 1..MaxClientTasks}

\* const queryKey = `${item.query}|${item.brand}|${item.branch}`
queryKey(item) == item.query \o <<"|">> \o item.brand \o <<"|">> \o item.branch

\* item.title === 'Brand not found' && item.query_result_number === 'N/A'
isNAEntry(item) ==
  /\ item.title = Str(BrandNotFound)
  /\ item.query_result_number = Str(<<"N/A">>)

\* the test under which a brand-matching item replaces the existing entry
\* of its key: !existing.brand_match || (both ranks are not 'N/A' &&
\* item.query_result_number < existing.query_result_number)
replacesExisting(item, existing) ==
  \/ ~existing.brand_match
  \/ /\ item.query_result_number # Str(<<"N/A">>)
     /\ existing.query_result_number # Str(<<"N/A">>)
     /\ item.query_result_number.v < existing.query_result_number.v

\* the body of for (const item of data.data.allPlaces): queryMap after item
collapseItem(map, item) ==
  LET key == queryKey(item)
      at == {k \in 1..Len(map) : map[k].key = key}
  IN IF at = {} THEN Append(map, [key |-> key, item |-> item])
     ELSE LET k == CHOOSE k \in at : TRUE
              existing == map[k].item
          IN IF item.brand_match
             THEN IF replacesExisting(item, existing)
                  THEN [map EXCEPT ![k].item = item] ELSE map
             ELSE IF isNAEntry(item) /\ ~existing.brand_match
                  THEN [map EXCEPT ![k].item = item] ELSE map

\* the loop over data.data.allPlaces from its k-th item on
RECURSIVE collapse(_, _, _)
collapse(map, list, k) ==
  IF k > Len(list) THEN map
  ELSE collapse(collapseItem(map, list[k]), list, k + 1)

\* the requests of the dashboard: the streaming route, the uploaded rows,
\* with or without geo grid
ClientRequests ==
  { rq \in [route : {"stream"}, queryData : ClientQueryLists,
            geoGridEnabled : BOOLEAN,
            geoGridConfig : GeoGridConfigs \cup {Null}] :
      /\ rq.geoGridEnabled <=> rq.geoGridConfig # Null
      /\ rq.geoGridEnabled =>
           Len(rq.queryData) * (rq.geoGridConfig.gridSize
                                  * rq.geoGridConfig.gridSize) <= MaxVisits }

InitClient ==
  /\ InitCommon
  /\ matchCase = Null
  /\ gridCase = Null
  /\ historyCase = Null
  /\ apiKey = TRUE
  /\ stock = MaxClientListings
  /\ \E rq \in ClientRequests :
       req = [r \in RunIds |-> IF r = 1 THEN rq ELSE Null]
  /\ pc = [r \in RunIds |-> IF r = 1 THEN "createSearch" ELSE "idle"]

\* the dashboard's handler of the 'complete' event: queryMap is built from
\* data.data.allPlaces
HandleComplete(r) ==
  /\ queryMap = Null
  /\ pc[r] = "done"
  /\ out[r] # <<>>
  /\ out[r][Len(out[r])].type = "complete"
  /\ queryMap' =
       [t |-> "object",
        v |-> collapse(<<>>, out[r][Len(out[r])].allPlaces, 1)]
  /\ UNCHANGED <<req, locals, storageVars, upstream, timers, environment,
                 cases>>

NextClient == PersistingNext(1) \/ HandleComplete(1)

SpecClient == InitClient /\ [][NextClient]_vars

(***************************************************************************)
(* The route specification: the same task list and geo-grid options are    *)
(* sent to two different entry points, the second request when the first   *)
(* has been responded to, and the upstream answers a request of the second *)
(* run as it answered the same request of the first.                       *)
(***************************************************************************)
\* what the upstream receives with a request and what it answers
ExchangeOf(request) ==
  [q |-> request.q, page |-> request.page, ll |-> request.ll,
   outcome |-> request.outcome, places |-> request.places]

\* the exchanges of run r with the upstream, in order
ExchangesOf(r) == [n \in 1..Len(fetchLog[r]) |-> ExchangeOf(fetchLog[r][n])]

\* the upstream has answered no request of the second run otherwise than
\* it answered the same request of the first
SameResponses ==
  \A n \in 1..Len(fetchLog[2]), m \in 1..Len(fetchLog[1]) :
    (/\ SameRequest(fetchLog[2][n], fetchLog[1][m])
     /\ fetchLog[2][n].outcome # "pending"
     /\ fetchLog[1][m].outcome # "pending") =>
      ExchangeOf(fetchLog[2][n]) = ExchangeOf(fetchLog[1][m])

\* the pairs of entry points compared
RoutePairs ==
  {<<"stream", "csv">>, <<"stream", "rerun">>, <<"csv", "rerun">>}

\* the requests sent to both entry points: one task or two, and one task
\* with the geo grid
RouteRequests ==
  {rq \in Requests : rq.route = "stream" /\ Len(rq.queryData) \in {1, 2}}

InitRoutes ==
  /\ InitCommon
  /\ matchCase = Null
  /\ gridCase = Null
  /\ historyCase = Null
  /\ apiKey = TRUE
  /\ stock = 2 * MaxRouteListings
  /\ \E rq \in RouteRequests, routes \in RoutePairs :
       req = [r \in RunIds |-> [rq EXCEPT !.route = routes[r]]]
  /\ pc = [r \in RunIds |->
             IF req[r].route = "csv" THEN "taskLoop" ELSE "createSearch"]

\* a step of the first run, or a step of the second once the first has
\* ended; the upstream returns at most MaxRouteListings listings to a run
NextRoutes ==
  \E r \in RunIds :
    /\ r = 2 => pc[1] = "done"
    /\ RunNext(r)
    /\ SameResponses'
    /\ ListingsServed(r)' <= MaxRouteListings

SpecRoutes == InitRoutes /\ [][NextRoutes]_vars

(***************************************************************************)
(* The scheduled specification: one request is served, with the credential *)
(* configured, under the scheduling of the event loop: a handler that can  *)
(* take a step (its await has resolved, the upstream has an answer for its *)
(* request) eventually takes one.  The upstream has MaxLiveListings        *)
(* listings, so that every grid point ends with an empty page.             *)
(***************************************************************************)
InitLive ==
  /\ InitCommon
  /\ matchCase = Null
  /\ gridCase = Null
  /\ historyCase = Null
  /\ apiKey = TRUE
  /\ stock = MaxLiveListings
  /\ \E rq \in Requests :
       /\ req = [r \in RunIds |-> IF r = 1 THEN rq ELSE Null]
       /\ pc = [r \in RunIds |->
                 IF r # 1 THEN "idle"
                 ELSE IF rq.route = "csv" THEN "taskLoop" ELSE "createSearch"]

NextLive == RunNext(1)

SpecLive == InitLive /\ [][NextLive]_vars /\ WF_vars(NextLive)

(***************************************************************************)
(* The ranking-history specification: the storage holds ranking rows, one  *)
(* request for the history of a (query, brand, branch) is served.          *)
(***************************************************************************)
MaxHistoryRows == 3
MaxHistoryPosition == 2
MaxHistoryTime == 2

\* the query of a stored row: that of the request, or another
HistoryQueries == {<<"k">>, <<"j">>}

\* the rows the storage may hold: rankingPosition is the rank of an
\* observation, which counts from 1, or null; createdAt is the time of
\* createRankingResult
StoredRows ==
  [query : HistoryQueries, brand : {<<"A">>}, branch : {<<"1">>},
   rankingPosition : {Null} \cup {Num(n) : n \in 1..MaxHistoryPosition},
   createdAt : 1..MaxHistoryTime]

\* the contents of the storage, in insertion order: a row is never created
\* before the row inserted before it
Stores ==
  {rows \in UNION {[1..n -> StoredRows] : n \in 0..MaxHistoryRows} :
     \A k \in 2..Len(rows) : rows[k - 1].createdAt <= rows[k].createdAt}

\* the requests: without dates, from the latest time on, up to the earliest
\* time, and one without query
HistoryRequests ==
  {[query |-> Str(<<"k">>), brand |-> Str(<<"A">>), branch |-> Str(<<"1">>),
    startDate |-> dates[1], endDate |-> dates[2]] :
      dates \in {<<Undefined, Undefined>>,
                 <<Num(MaxHistoryTime), Undefined>>,
                 <<Undefined, Num(1)>>}}
  \cup {[query |-> Undefined, brand |-> Str(<<"A">>), branch |-> Str(<<"1">>),
         startDate |-> Undefined, endDate |-> Undefined]}

\* the place of the j-th row after .sort((a, b) => b.createdAt - a.createdAt):
\* the sort is stable, rows created at the same time keep their order
PlaceNewestFirst(rows, j) ==
  1 + Cardinality({m \in 1..Len(rows) : rows[m].createdAt > rows[j].createdAt})
    + Cardinality({m \in 1..(j - 1) : rows[m].createdAt = rows[j].createdAt})

\* MemStorage.getRankingHistory
getRankingHistory(rows, query, brand, branch, startDate, endDate) ==
  LET kept ==
        SelectSeq(rows, LAMBDA r :
          /\ ~(r.query # query \/ r.brand # brand \/ r.branch # branch)
          /\ ~(startDate # Undefined /\ r.createdAt < startDate.v)
          /\ ~(endDate # Undefined /\ r.createdAt > endDate.v))
  IN [k \in 1..Len(kept) |->
        kept[CHOOSE j \in 1..Len(kept) : PlaceNewestFirst(kept, j) = k]]

\* variant: the trend of an entry is taken from the entry before it, the
\* newer one
historyWithTrends_FromNewer(history) ==
  [index \in 1..Len(history) |->
     LET prevPos == IF index > 1 THEN history[index - 1].rankingPosition
                    ELSE Undefined
         currPos == history[index].rankingPosition
     IN [query |-> history[index].query,
         rankingPosition |-> currPos,
         createdAt |-> history[index].createdAt,
         previousPosition |-> IF prevPos \in {Null, Undefined} THEN Null
                              ELSE prevPos,
         change |-> IF Truthy(currPos) /\ Truthy(prevPos)
                    THEN Num(prevPos.v - currPos.v) ELSE Null]]

\* history.map((result, index) => ({...result, previousPosition, change}))
historyWithTrends(history) ==
  [index \in 1..Len(history) |->
     LET prevPos == IF index < Len(history)
                    THEN history[index + 1].rankingPosition
                    ELSE Undefined
         currPos == history[index].rankingPosition
     IN [query |-> history[index].query,
         rankingPosition |-> currPos,
         createdAt |-> history[index].createdAt,
         previousPosition |-> IF prevPos \in {Null, Undefined} THEN Null
                              ELSE prevPos,
         change |-> IF Truthy(currPos) /\ Truthy(prevPos)
                    THEN Num(prevPos.v - currPos.v) ELSE Null]]

InitHistory ==
  /\ InitCommon
  /\ matchCase = Null
  /\ gridCase = Null
  /\ apiKey = TRUE
  /\ stock = 0
  /\ req = [r \in RunIds |-> Null]
  /\ pc = [r \in RunIds |-> "idle"]
  /\ \E rows \in Stores, request \in HistoryRequests :
       historyCase = [stored |-> rows, request |-> request,
                      history |-> Null, response |-> Null]

\* GET /api/ranking-history without query, brand or branch: status 400
RejectHistory ==
  /\ historyCase # Null
  /\ historyCase.response = Null
  /\ \/ ~Truthy(historyCase.request.query)
     \/ ~Truthy(historyCase.request.brand)
     \/ ~Truthy(historyCase.request.branch)
  /\ historyCase' = [historyCase EXCEPT !.response = [status |-> 400]]
  /\ UNCHANGED <<req, locals, storageVars, upstream, timers, environment,
                 matchCase, gridCase, client>>

\* await storage.getRankingHistory(query, brand, branch, start, end)
GetHistory ==
  /\ historyCase # Null
  /\ historyCase.history = Null
  /\ Truthy(historyCase.request.query)
  /\ Truthy(historyCase.request.brand)
  /\ Truthy(historyCase.request.branch)
  /\ historyCase' =
       [historyCase EXCEPT !.history =
          [t |-> "array",
           v |-> getRankingHistory(historyCase.stored,
                                   historyCase.request.query.v,
                                   historyCase.request.brand.v,
                                   historyCase.request.branch.v,
                                   historyCase.request.startDate,
                                   historyCase.request.endDate)]]
  /\ UNCHANGED <<req, locals, storageVars, upstream, timers, environment,
                 matchCase, gridCase, client>>

\* res.json({success: true, data: historyWithTrends})
RespondHistory ==
  /\ historyCase # Null
  /\ historyCase.history # Null
  /\ historyCase.response = Null
  /\ historyCase' =
       [historyCase EXCEPT !.response =
          [status |-> 200, data |-> historyWithTrends(historyCase.history.v)]]
  /\ UNCHANGED <<req, locals, storageVars, upstream, timers, environment,
                 matchCase, gridCase, client>>

NextHistory == RejectHistory \/ GetHistory \/ RespondHistory

SpecHistory == InitHistory /\ [][NextHistory]_vars

(***************************************************************************)
(* Vocabulary of the properties.                                           *)
(***************************************************************************)
\* the completion report of a handler
IsCompletion(m) ==
  \/ m.type = "complete"
  \/ m.type = "response" /\ m.status = 200

\* the error report of a handler
IsFailure(m) ==
  \/ m.type = "error"
  \/ m.type = "response" /\ m.status = 500

\* run r has ended with a completion report
Completed(r) ==
  /\ pc[r] = "done"
  /\ out[r] # <<>>
  /\ IsCompletion(out[r][Len(out[r])])

\* the final report of a run that has reported
LastReport(r) == out[r][Len(out[r])]

\* the rank of an observation
RankOf(e) == e.query_result_number.v

\* a fetch of run r has failed
FetchFailed(r) ==
  \E n \in 1..Len(fetchLog[r]) : fetchLog[r][n].outcome = "failed"

\* the positions of the observations in a result list
ObservationsOf(list) == {k \in 1..Len(list) : IsObservation(list[k])}

\* the positions of the 'Brand not found' entries in a result list
SentinelsOf(list) == {k \in 1..Len(list) : ~IsObservation(list[k])}

(***************************************************************************)
(* Properties.                                                             *)
(***************************************************************************)
\* two observations pushed one after the other for the same task
Consecutive(r, k) ==
  /\ IsObservation(allResults[r][k])
  /\ IsObservation(allResults[r][k + 1])
  /\ allResults[r][k].task = allResults[r][k + 1].task

\* C1, as stated: the rank counter is not reset between grid points, so
\* within one task every observation has a rank one greater than the
\* observation before it, also when the two come from different grid
\* points.
C1_RankContinuesAcrossGridPoints ==
  \A r \in RunIds : \A k \in 1..(Len(allResults[r]) - 1) :
    Consecutive(r, k) =>
      RankOf(allResults[r][k + 1]) = RankOf(allResults[r][k]) + 1

\* C1, amended: the rank counter is reset at every grid point.  Within one
\* task, an observation that follows an observation of the same grid point
\* has a rank one greater, and an observation that follows an observation
\* of another grid point has rank 1.
C1_RankRestartsAtEachGridPoint ==
  \A r \in RunIds : \A k \in 1..(Len(allResults[r]) - 1) :
    Consecutive(r, k) =>
      IF allResults[r][k + 1].grid = allResults[r][k].grid
      THEN RankOf(allResults[r][k + 1]) = RankOf(allResults[r][k]) + 1
      ELSE RankOf(allResults[r][k + 1]) = 1

\* a task has observations at two grid points, the earlier one ending at a
\* rank above 1
C1_Witness ==
  \E r \in RunIds : \E k \in 1..(Len(allResults[r]) - 1) :
    /\ Consecutive(r, k)
    /\ allResults[r][k + 1].grid # allResults[r][k].grid
    /\ RankOf(allResults[r][k]) >= 2

\* C2: for every task and grid point the ranks of the observations, in the
\* order they were pushed over all pages of that grid point, are 1, 2, ..., n:
\* each rank is one more than the number of earlier observations of the same
\* task and grid point.
C2_RanksCountFromOnePerGridPoint ==
  \A r \in RunIds : \A k \in ObservationsOf(allResults[r]) :
    RankOf(allResults[r][k]) =
      1 + Cardinality({j \in ObservationsOf(allResults[r]) :
                         /\ j < k
                         /\ allResults[r][j].task = allResults[r][k].task
                         /\ allResults[r][j].grid = allResults[r][k].grid})

\* a grid point has observations on a second page, after a first page of
\* two listings
C2_Witness ==
  \E r \in RunIds : \E k \in ObservationsOf(allResults[r]) :
    /\ allResults[r][k].pageNo = 2
    /\ RankOf(allResults[r][k]) = 3

\* C3: in the result list of a completed run, every task has one 'Brand not
\* found' entry if none of its observations is a brand match, and none
\* otherwise, however many grid points were searched.
C3_OneSentinelIffNoMatch ==
  \A r \in RunIds :
    Completed(r) =>
      LET list == LastReport(r).allPlaces
      IN \A t \in 1..Len(queryData(r)) :
           Cardinality({k \in SentinelsOf(list) : list[k].task = t}) =
             IF \E k \in ObservationsOf(list) :
                  list[k].task = t /\ list[k].brand_match
             THEN 0 ELSE 1

\* a completed geo-grid run whose task has observations at two grid points,
\* none of them a brand match, and one 'Brand not found' entry
C3_Witness ==
  \E r \in RunIds :
    /\ Completed(r)
    /\ req[r].geoGridEnabled
    /\ LET list == LastReport(r).allPlaces
       IN /\ \E j, k \in ObservationsOf(list) : list[j].grid # list[k].grid
          /\ \A k \in ObservationsOf(list) : ~list[k].brand_match
          /\ Cardinality(SentinelsOf(list)) = 1

\* a report that carries apiCallsMade: a progress event or a completion
ReportsApiCalls(m) == m.type = "progress" \/ IsCompletion(m)

\* the (task, grid point, page) triples of the observations of a list
PagesWithListings(list) ==
  {<<list[k].task, list[k].grid, list[k].pageNo>> : k \in ObservationsOf(list)}

\* C4: whenever a handler reports apiCallsMade, in a progress event or in
\* its completion report, the value is the number of requests the upstream
\* has received from that run; in a completion report it is the sum over
\* the (task, grid point) pairs of the number of pages with listings plus
\* one.
C4_ApiCallsMadeCountsFetches ==
  /\ [][\A r \in RunIds :
          (Len(out'[r]) > Len(out[r])
             /\ ReportsApiCalls(out'[r][Len(out'[r])]))
          => out'[r][Len(out'[r])].apiCallsMade = Len(fetchLog'[r])]_vars
  /\ [](\A r \in RunIds :
          Completed(r) =>
            LastReport(r).apiCallsMade =
              Cardinality(PagesWithListings(LastReport(r).allPlaces))
              + Len(queryData(r)) * Len(gridPoints(req[r])))

\* a completed geo-grid run that fetched two pages with listings and the
\* four empty pages that end its grid points
C4_Witness ==
  \E r \in RunIds :
    /\ Completed(r)
    /\ req[r].geoGridEnabled
    /\ Cardinality(PagesWithListings(LastReport(r).allPlaces)) = 2
    /\ LastReport(r).apiCallsMade = 6

\* s contains t: t occurs in s at some offset
Contains(s, t) ==
  \E k \in 0..Len(s) :
    /\ k + Len(t) <= Len(s)
    /\ \A j \in 1..Len(t) : s[k + j] = t[j]

\* s in lower case, reduced to the characters of the set kept
RECURSIVE LoweredKeeping(_, _)
LoweredKeeping(s, kept) ==
  IF s = <<>> THEN <<>>
  ELSE LET c == IF Head(s) = "A" THEN "a" ELSE Head(s)
       IN (IF c \in kept THEN <<c>> ELSE <<>>) \o LoweredKeeping(Tail(s), kept)

\* the lower-case characters that are not whitespace / that are alphanumeric
NotBlank == {"a", "1", "."}
Alphanumeric == {"a", "1"}

\* the text of a listing title: empty when the listing has no title
TitleText(title) == IF title.t = "string" THEN title.v ELSE <<>>

\* C5: the brand_match of a listing is true exactly when its title, in
\* lower case without whitespace, contains the brand in lower case without
\* whitespace and contains the branch in lower case without
\* non-alphanumeric characters, wherever the two occur in the title.
C5_MatchIffBothNormalizedSubstrings ==
  matchCase # Null =>
    \A k \in 1..Len(matchCase.result) :
      LET e == matchCase.result[k]
          normalizedTitle == LoweredKeeping(TitleText(e.title), NotBlank)
      IN e.brand_match <=>
           /\ Contains(normalizedTitle, LoweredKeeping(e.brand, NotBlank))
           /\ Contains(normalizedTitle,
                       LoweredKeeping(e.branch, Alphanumeric))

\* a title that names the branch before the brand is a brand match
C5_Witness ==
  /\ matchCase # Null
  /\ matchCase.brand = <<"A">>
  /\ matchCase.branch = <<"1", ".">>
  /\ matchCase.result # <<>>
  /\ matchCase.result[1].title = Str(<<"1", " ", "A">>)
  /\ matchCase.result[1].brand_match

\* C6: every observation has is_local_pack true exactly when its rank is at
\* most 3, and local_pack_position equal to its rank when is_local_pack is
\* true and null otherwise, so a local_pack_position is 1, 2 or 3.
C6_LocalPackIsTopThree ==
  \A r \in RunIds : \A k \in ObservationsOf(allResults[r]) :
    LET e == allResults[r][k]
    IN /\ e.is_local_pack <=> RankOf(e) <= 3
       /\ e.local_pack_position =
            IF e.is_local_pack THEN Num(RankOf(e)) ELSE Null
       /\ e.local_pack_position # Null => e.local_pack_position.v \in 1..3

\* an observation of rank 3 in the local pack and one of rank 4 outside it
C6_Witness ==
  \E r \in RunIds : \E j, k \in ObservationsOf(allResults[r]) :
    /\ RankOf(allResults[r][j]) = 3
    /\ allResults[r][j].local_pack_position = Num(3)
    /\ RankOf(allResults[r][k]) = 4
    /\ ~allResults[r][k].is_local_pack
    /\ allResults[r][k].local_pack_position = Null

\* a completion report is among the reports of run r
HasCompletion(r) == \E n \in 1..Len(out[r]) : IsCompletion(out[r][n])

\* C7: once a fetch of a run has failed, that fetch is the last request of
\* the run (no retry, no next page, grid point or task), the handler is in
\* its catch block or has ended with the thrown error in hand, and the run
\* has no completion report.
C7_FetchFailureAbortsRun ==
  \A r \in RunIds : \A n \in 1..Len(fetchLog[r]) :
    fetchLog[r][n].outcome = "failed" =>
      /\ n = Len(fetchLog[r])
      /\ pc[r] \in {"catch", "done"}
      /\ error[r] = Str(ErrSerper)
      /\ ~HasCompletion(r)

\* a run whose third fetch failed, with tasks left, has ended
C7_Witness ==
  \E r \in RunIds :
    /\ pc[r] = "done"
    /\ Len(fetchLog[r]) = 3
    /\ fetchLog[r][3].outcome = "failed"
    /\ i[r] + 1 < Len(queryData(r))

\* the credential was missing when run r reached its first fetch
MissingCredential(r) ==
  /\ ~apiKey
  /\ pc[r] \in {"catch", "done"}
  /\ Route(r) = "csv" \/ searchId[r] # Null

\* C8: a run that has failed by a fetch failure or a missing credential
\* and has ended has sent one error report, as its last report, with the
\* message of the error that caused the failure, and no completion report;
\* on each of the three routes.
C8_OneErrorReportWithCause ==
  \A r \in RunIds :
    (pc[r] = "done" /\ (FetchFailed(r) \/ MissingCredential(r))) =>
      /\ Cardinality({n \in 1..Len(out[r]) : IsFailure(out[r][n])}) = 1
      /\ IsFailure(LastReport(r))
      /\ LastReport(r).error =
           IF FetchFailed(r) THEN ErrSerper ELSE ErrNoKey
      /\ LastReport(r).type =
           IF Route(r) = "stream" THEN "error" ELSE "response"
      /\ ~HasCompletion(r)

\* a rerun whose fetch failed after listings were observed has reported
\* the upstream error
C8_Witness ==
  \E r \in RunIds :
    /\ pc[r] = "done"
    /\ Route(r) = "rerun"
    /\ FetchFailed(r)
    /\ allResults[r] # <<>>
    /\ LastReport(r).error = ErrSerper

\* C9: when a fetch of a run has failed, no row of that run has been handed
\* to the result sink, and the search record of the run, if it has one,
\* keeps the zero summary counts it was created with.
C9_FailedRunSavesNothing ==
  \A r \in RunIds :
    FetchFailed(r) =>
      /\ \A c \in 1..Len(sink) : \A k \in 1..Len(sink[c]) :
           sink[c][k].searchId # searchId[r]
      /\ searchId[r] # Null =>
           LET record == searches[searchId[r].v]
           IN /\ record.totalResults = 0
              /\ record.totalBrandMatches = 0
              /\ record.totalLocalPackMatches = 0
              /\ record.apiCallsMade = 0

\* a streaming run failed after a brand match was observed and has marked
\* its search record
C9_Witness ==
  \E r \in RunIds :
    /\ FetchFailed(r)
    /\ pc[r] = "done"
    /\ Route(r) = "stream"
    /\ \E k \in ObservationsOf(allResults[r]) : allResults[r][k].brand_match
    /\ searches[searchId[r].v].status = "error"

\* request a is before request b in (task, grid point, page) order
BeforeInOrder(a, b) ==
  \/ a.task < b.task
  \/ a.task = b.task /\ a.grid < b.grid
  \/ a.task = b.task /\ a.grid = b.grid /\ a.page < b.page

\* C10: a run has at most one request outstanding, every request but its
\* last has been answered, and its requests were issued in increasing
\* (task, grid point, page) order.
C10_FetchesAreSequential ==
  \A r \in RunIds :
    /\ Cardinality({m \in inflight : m.run = r}) <= 1
    /\ \A n \in 1..(Len(fetchLog[r]) - 1) :
         /\ fetchLog[r][n].outcome # "pending"
         /\ BeforeInOrder(fetchLog[r][n], fetchLog[r][n + 1])

\* a request of the second grid point is outstanding after the requests of
\* the first grid point were answered
C10_Witness ==
  \E r \in RunIds :
    /\ Len(fetchLog[r]) >= 3
    /\ fetchLog[r][Len(fetchLog[r])].outcome = "pending"
    /\ fetchLog[r][Len(fetchLog[r])].grid = 2
    /\ fetchLog[r][1].grid = 1
    /\ Cardinality({m \in inflight : m.run = r}) = 1

\* the progress events of run r, in the order they were sent
ProgressOf(r) == SelectSeq(out[r], LAMBDA m : m.type = "progress")

\* C11: over the progress events of a run, in the order they were sent,
\* processedQueries never decreases and never exceeds totalQueries.
C11_ProcessedQueriesNeverDecreases ==
  \A r \in RunIds :
    LET events == ProgressOf(r)
    IN /\ \A k \in 1..Len(events) :
            events[k].processedQueries <= events[k].totalQueries
       /\ \A k \in 1..(Len(events) - 1) :
            events[k].processedQueries <= events[k + 1].processedQueries

\* a streaming run of two tasks has sent the starting event, the event at
\* the head of its first task, an event after a page and the event at the
\* head of its second task
C11_Witness ==
  \E r \in RunIds :
    LET events == ProgressOf(r)
    IN /\ Len(events) >= 4
       /\ events[1].processedQueries = 0
       /\ events[3].processedQueries = 1
       /\ events[3].currentPage = 2
       /\ events[Len(events)].processedQueries = 2

\* run r serves a request of the streaming route
Streaming(r) == req[r] # Null /\ Route(r) = "stream"

\* C12: whenever a streaming run has a request outstanding that is not
\* its first, the last progress event it sent was sent after the answer to
\* the request before: it reports that request in apiCallsMade, also when
\* the answer was an empty page.
C12_ProgressAfterEveryFetch ==
  \A r \in RunIds :
    (Streaming(r) /\ pc[r] = "awaitFetch" /\ Len(fetchLog[r]) >= 2) =>
      LET events == ProgressOf(r)
      IN /\ events # <<>>
         /\ events[Len(events)].apiCallsMade = Len(fetchLog[r]) - 1

\* a timer of run r fired after the run had sent n requests and before it
\* sent another
DelayedAfter(r, n) == \E k \in 1..Len(timers[r]) : timers[r][k] = n

\* C13: every request of a run but its first was sent after a delay that
\* followed the request before it: no two consecutive requests of a run
\* are without a delay between them.
C13_DelayBeforeEveryFetchButTheFirst ==
  \A r \in RunIds : \A n \in 2..Len(fetchLog[r]) : DelayedAfter(r, n - 1)

\* the requests of run r that the upstream has answered with a page
AnsweredRequests(r) ==
  {n \in 1..Len(fetchLog[r]) : fetchLog[r][n].outcome = "ok"}

\* the keywords of the tasks of run r
OwnKeywords(r) == {queryData(r)[t].Keywords : t \in 1..Len(queryData(r))}

\* C14: when two runs are interleaved at their awaits, each keeps to its
\* own state.  Every entry of a run's result list is for a task of that
\* run, and every observation comes from a page the upstream returned to
\* that run; the run's call counter is the number of answers to its own
\* requests; its progress events carry its own task count, keywords and
\* call counts; every row handed to the result sink for a task of the run
\* carries the id of the run's own search record, and the two runs have
\* different search records.
C14_ConcurrentRunsAreIsolated ==
  /\ (searchId[1] # Null /\ searchId[2] # Null) => searchId[1] # searchId[2]
  /\ \A r \in RunIds :
       /\ \A k \in 1..Len(allResults[r]) :
            LET e == allResults[r][k]
            IN /\ e.task \in 1..Len(queryData(r))
               /\ e.query = queryData(r)[e.task].Keywords
               /\ e.brand = queryData(r)[e.task].Brand
               /\ e.branch = queryData(r)[e.task].Branch
               /\ IsObservation(e) =>
                    \E n \in AnsweredRequests(r) :
                      /\ fetchLog[r][n].task = e.task
                      /\ fetchLog[r][n].grid = e.grid
                      /\ fetchLog[r][n].page = e.pageNo
       /\ totalApiCalls[r] = Cardinality(AnsweredRequests(r))
       /\ \A n \in 1..Len(out[r]) :
            /\ out[r][n].type = "progress" =>
                 /\ out[r][n].totalQueries = Len(queryData(r))
                 /\ out[r][n].currentQuery \in OwnKeywords(r) \cup {Starting}
                 /\ out[r][n].apiCallsMade <= totalApiCalls[r]
            /\ IsCompletion(out[r][n]) =>
                 /\ out[r][n].allPlaces = allResults[r]
                 /\ out[r][n].apiCallsMade = totalApiCalls[r]
       /\ \A c \in 1..Len(sink) : \A k \in 1..Len(sink[c]) :
            sink[c][k].query \in OwnKeywords(r) =>
              sink[c][k].searchId = searchId[r]

\* the second run has completed and saved its rows while the first run,
\* which holds an observation and a search record, has a request outstanding
C14_Witness ==
  /\ pc[1] = "awaitFetch"
  /\ searchId[1] # Null
  /\ ObservationsOf(allResults[1]) # {}
  /\ Completed(2)
  /\ ObservationsOf(allResults[2]) # {}
  /\ Len(sink) = 1
  /\ sink[1] # <<>>
  /\ sink[1][1].searchId = searchId[2]
  /\ totalApiCalls[1] = 1
  /\ totalApiCalls[2] = 2

\* the radius of a grid request in degrees of latitude and of longitude,
\* in coordinate units: radiusKm / 111.32 and radiusKm / (111.32 cos(lat))
RadiusLat(spec) == spec.radiusKm * 100
RadiusLng(spec) == (spec.radiusKm * 100 * 1000) \div CosPermille(spec.centerLat)

\* C15: for a grid request with gridSize at least 2 the generator returns
\* gridSize * gridSize points, row by row from the southwest corner: the
\* point at index i * gridSize + j (counted from 0) lies i latitude steps
\* north and j longitude steps east of (centre - radius), a step being the
\* diameter divided by gridSize - 1; the first point is the southwest and
\* the last the northeast corner (centre + radius on both axes).
C15_GridIsRowMajorFromSouthwest ==
  (gridCase # Null /\ gridCase.points # <<>>) =>
    LET spec == gridCase.spec
        points == gridCase.points
        size == spec.gridSize
        south == spec.centerLat - RadiusLat(spec)
        west == spec.centerLng - RadiusLng(spec)
        stepNorth == (2 * RadiusLat(spec)) \div (size - 1)
        stepEast == (2 * RadiusLng(spec)) \div (size - 1)
    IN /\ Len(points) = size * size
       /\ \A ii, jj \in 0..(size - 1) :
            points[ii * size + jj + 1] =
              [lat |-> Num(south + ii * stepNorth),
               lng |-> Num(west + jj * stepEast)]
       /\ points[1] = [lat |-> Num(south), lng |-> Num(west)]
       /\ points[size * size] =
            [lat |-> Num(spec.centerLat + RadiusLat(spec)),
             lng |-> Num(spec.centerLng + RadiusLng(spec))]

\* a grid of 3 by 3 points at latitude 60: its second point is one step
\* east of the southwest corner and its fifth point is the centre
C15_Witness ==
  /\ gridCase # Null
  /\ gridCase.spec.gridSize = 3
  /\ gridCase.spec.centerLat = 60 * Degree
  /\ Len(gridCase.points) = 9
  /\ gridCase.points[2].lat = gridCase.points[1].lat
  /\ gridCase.points[2].lng.v > gridCase.points[1].lng.v
  /\ gridCase.points[5] = [lat |-> Num(gridCase.spec.centerLat),
                           lng |-> Num(gridCase.spec.centerLng)]

\* run r has completed the example: its one task is the example task, no
\* geo grid, page 1 returned five listings with the example listing second
\* and page 2 was empty
ExampleCompleted(r) ==
  /\ req[r] # Null
  /\ queryData(r) = <<ExampleRow>>
  /\ ~req[r].geoGridEnabled
  /\ Completed(r)
  /\ Len(fetchLog[r]) = 2
  /\ Cardinality(ObservationsOf(LastReport(r).allPlaces)) = 5
  /\ LastReport(r).allPlaces[2].title = ExampleListing.title

\* the observations of a list that are brand matches / are not
MatchesOf(list) == {k \in ObservationsOf(list) : list[k].brand_match}
NonMatchesOf(list) == {k \in ObservationsOf(list) : ~list[k].brand_match}

\* the result of the example, with a given number of non-matching
\* observations: one brand match, at rank 2, in the local pack at position
\* 2, and no 'Brand not found' entry
ExampleResult(list, nonMatching) ==
  /\ \E k \in ObservationsOf(list) :
       /\ MatchesOf(list) = {k}
       /\ RankOf(list[k]) = 2
       /\ list[k].is_local_pack
       /\ list[k].local_pack_position = Num(2)
  /\ Cardinality(NonMatchesOf(list)) = nonMatching
  /\ SentinelsOf(list) = {}

\* C16, as stated: the example yields the matching observation, three
\* other observations, none of them a match, and no 'Brand not found'
\* entry.
C16_ExampleHasThreeOtherObservations ==
  \A r \in RunIds :
    ExampleCompleted(r) => ExampleResult(LastReport(r).allPlaces, 3)

\* C16, amended: every one of the five listings is observed, so the
\* example yields the matching observation, four other observations, none
\* of them a match, and no 'Brand not found' entry.
C16_ExampleHasFourOtherObservations ==
  \A r \in RunIds :
    ExampleCompleted(r) =>
      /\ ExampleResult(LastReport(r).allPlaces, 4)
      /\ Len(LastReport(r).allPlaces) = 5

\* the example has completed
C16_Witness == \E r \in RunIds : ExampleCompleted(r)

\* the progress events of run r sent at the head or in the course of a
\* task (the starting event has processedQueries 0)
TaskProgressOf(r) ==
  SelectSeq(out[r], LAMBDA m : m.type = "progress" /\ m.processedQueries >= 1)

\* C17: a run that fails for want of the API credential has attempted
\* nothing: when the configuration error is raised and when it is reported,
\* the run has sent no request to the upstream, has created no search
\* record and has sent no progress event of a task.
C17_NoCredentialNothingAttempted ==
  \A r \in RunIds :
    error[r] = Str(ErrNoKey) =>
      /\ fetchLog[r] = <<>>
      /\ searchId[r] = Null
      /\ searches = <<>>
      /\ TaskProgressOf(r) = <<>>

\* C18: in a run without geo grid every request is for the one grid point
\* of its task and carries no location (no ll), and every observation has
\* neither a search latitude nor a search longitude: the two are undefined
\* on the observation and null on the row handed to the result sink, not 0.
C18_NoGeoGridNoLocation ==
  \A r \in RunIds :
    (req[r] # Null /\ ~req[r].geoGridEnabled) =>
      /\ \A n \in 1..Len(fetchLog[r]) :
           /\ fetchLog[r][n].ll = Undefined
           /\ fetchLog[r][n].grid = 1
      /\ \A k \in ObservationsOf(allResults[r]) :
           /\ allResults[r][k].search_latitude = Undefined
           /\ allResults[r][k].search_longitude = Undefined
           /\ allResults[r][k].grid = 1
      /\ \A c \in 1..Len(sink) : \A k \in 1..Len(sink[c]) :
           sink[c][k].searchId = searchId[r] =>
             /\ sink[c][k].searchLatitude = Null
             /\ sink[c][k].searchLongitude = Null

\* a run without geo grid has observed listings for two tasks and has
\* handed its rows to the result sink
C18_Witness ==
  \E r \in RunIds :
    /\ req[r] # Null
    /\ ~req[r].geoGridEnabled
    /\ Len(fetchLog[r]) = 4
    /\ \E j, k \in ObservationsOf(allResults[r]) :
         allResults[r][j].task = 1 /\ allResults[r][k].task = 2
    /\ \E c \in 1..Len(sink) :
         sink[c] # <<>> /\ sink[c][1].searchId = searchId[r]

\* a text is blank: it is empty or has only whitespace
Blank(text) == \A k \in 1..Len(text) : text[k] = " "

\* a text without its leading and trailing whitespace
Stripped(text) ==
  IF Blank(text) THEN <<>>
  ELSE LET solid == {k \in 1..Len(text) : text[k] # " "}
           first == CHOOSE k \in solid : \A j \in solid : k <= j
           last == CHOOSE k \in solid : \A j \in solid : k >= j
       IN SubSeq(text, first, last)

\* a row with its three fields stripped
StrippedRow(row) ==
  [Keywords |-> Stripped(row.Keywords), Brand |-> Stripped(row.Brand),
   Branch |-> Stripped(row.Branch)]

\* the rows of an input with no blank field, in input order
ValidRowsOf(input) ==
  SelectSeq(input, LAMBDA row : /\ ~Blank(row.Keywords)
                                /\ ~Blank(row.Brand)
                                /\ ~Blank(row.Branch))

\* the tasks of run r for which a request was sent
ProcessedTasks(r) == {fetchLog[r][n].task : n \in 1..Len(fetchLog[r])}

\* C19: every task a run has sent a request for, on the upload routes and
\* on the rerun route, has a keyword, a brand and a branch that are not
\* blank, and is, up to the trimming of its fields, the row at the same
\* position among the input rows without blank field: the tasks are those
\* rows in input order.
C19_TasksAreTheValidRowsInOrder ==
  \A r \in RunIds :
    (req[r] # Null /\ "input" \in DOMAIN req[r]) =>
      \A t \in ProcessedTasks(r) :
        LET task == queryData(r)[t]
            valid == ValidRowsOf(req[r].input)
        IN /\ ~Blank(task.Keywords)
           /\ ~Blank(task.Brand)
           /\ ~Blank(task.Branch)
           /\ t <= Len(valid)
           /\ StrippedRow(task) = StrippedRow(valid[t])

\* requests a and b are for the same task and grid point
SameGridPoint(a, b) == a.task = b.task /\ a.grid = b.grid

\* the answer to request a of run r was a page with listings / an empty page
HadListings(r, a) ==
  <<a.task, a.grid, a.page>> \in PagesWithListings(allResults[r])
WasEmpty(r, a) == a.outcome = "ok" /\ ~HadListings(r, a)

\* C20: the requests of a run for one task and grid point are for the
\* pages 1, 2, ..., in that order, every page before the last of them had
\* listings, and when the run has gone on to another grid point or has
\* completed, the last of them was empty: the pages of a grid point end
\* with its first empty page and the next grid point starts at page 1.
C20_PagesCountFromOneToFirstEmpty ==
  \A r \in RunIds :
    LET withListings == PagesWithListings(allResults[r])
        Had(a) == <<a.task, a.grid, a.page>> \in withListings
        Empty(a) == a.outcome = "ok" /\ ~Had(a)
    IN \A n \in 1..Len(fetchLog[r]) :
         LET a == fetchLog[r][n]
             earlier == {j \in 1..(n - 1) : SameGridPoint(fetchLog[r][j], a)}
         IN /\ a.page = Cardinality(earlier) + 1
            /\ \A j \in earlier : Had(fetchLog[r][j])
            /\ (n < Len(fetchLog[r]) /\ ~SameGridPoint(fetchLog[r][n + 1], a))
                 => Empty(a)
            /\ (n = Len(fetchLog[r]) /\ Completed(r)) => Empty(a)

\* a run has requested pages 1, 2 and 3 of its first grid point, the third
\* being empty, and page 1 of its second grid point
C20_Witness ==
  \E r \in RunIds :
    /\ Len(fetchLog[r]) = 4
    /\ fetchLog[r][3].grid = 1
    /\ fetchLog[r][3].page = 3
    /\ WasEmpty(r, fetchLog[r][3])
    /\ fetchLog[r][4].grid = 2
    /\ fetchLog[r][4].page = 1

\* run r has failed: an error was thrown in its handler
Failed(r) == error[r] # Null

\* run r has ended with its completion report, every task processed
CompletedAllTasks(r) ==
  /\ Completed(r)
  /\ i[r] = Len(queryData(r))
  /\ ProcessedTasks(r) = 1..Len(queryData(r))

\* a step of run r that leaves the page loop of a grid point: the handler
\* goes on to another grid point or to the end of the task
LeavesPageLoop(r) == gridIndex'[r] # gridIndex[r] \/ i'[r] # i[r]

\* C21: a run in which nothing fails (no fetch fails; the upstream, whose
\* listings are finite, ends every grid point with an empty page) ends
\* with its completion report after all its tasks were processed.  The
\* page loop has no cap: it is left only by the step that receives an empty
\* page (or by a failure), and the step after a delay requests the next
\* page of the same grid point.
C21_RunTerminatesOnEmptyPage ==
  /\ \A r \in RunIds :
       req[r] # Null => ([]~Failed(r) => <>CompletedAllTasks(r))
  /\ [][\A r \in RunIds :
          /\ (req[r] # Null /\ LeavesPageLoop(r)) =>
               /\ pc[r] = "awaitFetch"
               /\ Len(allResults'[r]) <= Len(allResults[r]) + 1
               /\ ObservationsOf(allResults'[r]) = ObservationsOf(allResults[r])
          /\ pc[r] = "delay" =>
               /\ pc'[r] \in {"delay", "fetch"}
               /\ page'[r] = page[r]]_vars

\* a geo-grid run has completed after a grid point with listings on its
\* pages 1 and 2 and an empty page 3
C21_Witness ==
  \E r \in RunIds :
    /\ CompletedAllTasks(r)
    /\ req[r].geoGridEnabled
    /\ \E k \in ObservationsOf(allResults[r]) : allResults[r][k].pageNo = 2
    /\ \E n \in 1..Len(fetchLog[r]) : fetchLog[r][n].page = 3

\* what the result list is to hold for a listing returned at a grid point
\* for a task, and for the 'Brand not found' entry of a task
ExpectedObservation(place, row, point) ==
  [title |-> place.title, query |-> row.Keywords, brand |-> row.Brand,
   branch |-> row.Branch, observed |-> TRUE,
   latitude |-> point.lat, longitude |-> point.lng]
ExpectedSentinel(row) ==
  [title |-> Str(BrandNotFound), query |-> row.Keywords, brand |-> row.Brand,
   branch |-> row.Branch, observed |-> FALSE,
   latitude |-> Undefined, longitude |-> Undefined]

\* the same view of an entry of a result list
ViewOf(e) ==
  [title |-> e.title, query |-> e.query, brand |-> e.brand,
   branch |-> e.branch, observed |-> IsObservation(e),
   latitude |-> IF IsObservation(e) THEN e.search_latitude ELSE Undefined,
   longitude |-> IF IsObservation(e) THEN e.search_longitude ELSE Undefined]

\* the pages the upstream returned to run r for task t at grid point g
AnswersAt(r, t, g) ==
  {n \in 1..Len(fetchLog[r]) :
     /\ fetchLog[r][n].task = t
     /\ fetchLog[r][n].grid = g
     /\ fetchLog[r][n].outcome = "ok"}

\* the listings returned to run r for task t at grid point g, which is
\* `point`, from page p on, in page order and, within a page, in listing
\* order
RECURSIVE ListingsFromPage(_, _, _, _, _)
ListingsFromPage(r, t, g, point, p) ==
  IF \A n \in AnswersAt(r, t, g) : fetchLog[r][n].page < p THEN <<>>
  ELSE LET onPage == {n \in AnswersAt(r, t, g) : fetchLog[r][n].page = p}
           listings == IF onPage = {} THEN <<>>
                       ELSE fetchLog[r][CHOOSE n \in onPage : TRUE].places
       IN [k \in 1..Len(listings) |->
             ExpectedObservation(listings[k], queryData(r)[t], point)]
          \o ListingsFromPage(r, t, g, point, p + 1)

\* the listings returned to run r for task t, from grid point g of
\* `points` on, in grid-point order
RECURSIVE ListingsFromGridPoint(_, _, _, _)
ListingsFromGridPoint(r, points, t, g) ==
  IF g > Len(points) THEN <<>>
  ELSE ListingsFromPage(r, t, g, points[g], 1)
       \o ListingsFromGridPoint(r, points, t, g + 1)

\* the groups of the tasks of run r, whose grid is `points`, from task t
\* on, in input order: the observations of the task, then its 'Brand not
\* found' entry if the list has one for it
RECURSIVE GroupsFromTask(_, _, _, _)
GroupsFromTask(r, list, points, t) ==
  IF t > Len(queryData(r)) THEN <<>>
  ELSE ListingsFromGridPoint(r, points, t, 1)
       \o (IF \E k \in SentinelsOf(list) : list[k].task = t
           THEN <<ExpectedSentinel(queryData(r)[t])>> ELSE <<>>)
       \o GroupsFromTask(r, list, points, t + 1)

\* C22: the result list of a completed run is, task by task in input
\* order, one observation for every listing the upstream returned for the
\* task, in grid-point order, then page order, then listing order, each with
\* the coordinates of the grid point it was returned at, followed by the
\* 'Brand not found' entry of the task if it has one; no listing is
\* dropped or merged with a listing of another grid point.
C22_ResultListIsConcatenationOfGroups ==
  \A r \in RunIds :
    Completed(r) =>
      LET list == LastReport(r).allPlaces
      IN /\ [k \in 1..Len(list) |-> ViewOf(list[k])] =
              GroupsFromTask(r, list, gridPoints(req[r]), 1)
         /\ \A t \in 1..Len(queryData(r)) :
              Cardinality({k \in SentinelsOf(list) : list[k].task = t}) <= 1

\* a completed geo-grid run that was returned the same listing at two grid
\* points and holds an observation of it for each
C22_Witness ==
  \E r \in RunIds :
    /\ Completed(r)
    /\ req[r].geoGridEnabled
    /\ \E j, k \in ObservationsOf(allResults[r]) :
         /\ allResults[r][j].grid # allResults[r][k].grid
         /\ allResults[r][j].title = allResults[r][k].title
         /\ allResults[r][j].search_latitude # allResults[r][k].search_latitude

\* run r has completed and its summary is stored: its search record is in
\* status 'completed'
SummaryStored(r) ==
  /\ Completed(r)
  /\ searchId[r] # Null
  /\ searches[searchId[r].v].status = "completed"

TripleOf(e) == <<e.query, e.brand, e.branch>>

\* the rows of the best-match view
BestMatchRows == [k \in 1..Len(queryMap.v) |-> queryMap.v[k].item]

\* C24: the best-match view of the result list of a completed run has one
\* row for every distinct (keyword, brand, branch) of the list and no other
\* row; if an entry of the list with that keyword, brand and branch is a
\* brand match, the row is a brand-matching observation of the least rank
\* among them, and otherwise the row is a 'Brand not found' entry.
C24_CollapseYieldsBestMatchPerKey ==
  queryMap # Null =>
    LET list == LastReport(1).allPlaces
        rows == BestMatchRows
        triples == {TripleOf(list[k]) : k \in 1..Len(list)}
    IN /\ Len(rows) = Cardinality(triples)
       /\ \A triple \in triples :
            LET mine == {k \in 1..Len(rows) : TripleOf(rows[k]) = triple}
                matches == {k \in MatchesOf(list) : TripleOf(list[k]) = triple}
            IN /\ Cardinality(mine) = 1
               /\ \A k \in mine :
                    IF matches # {}
                    THEN /\ IsObservation(rows[k])
                         /\ rows[k].brand_match
                         /\ \A j \in matches :
                              RankOf(rows[k]) <= RankOf(list[j])
                    ELSE isNAEntry(rows[k])

\* C25: matching tolerates punctuation in branch names.  A listing whose
\* title contains the brand and the branch as they are written in the input
\* is a brand match, and two spellings of a branch that differ in
\* punctuation only give every title the same classification.
C25_BranchPunctuationIsTolerated ==
  (matchCase # Null /\ Len(matchCase.result) = 2) =>
    LET written == matchCase.result[1]
        respelled == matchCase.result[2]
    IN /\ (/\ Contains(TitleText(written.title), written.brand)
           /\ Contains(TitleText(written.title), written.branch))
            => written.brand_match
       /\ written.brand_match <=> respelled.brand_match

\* C26: when the handler of a run that created a search record has
\* responded, the record is in status 'completed' if the run ended with
\* its completion report and in status 'error' if it ended with an error
\* report; on the streaming and the rerun route no ended run leaves its
\* record in status 'processing'.
C26_NoRecordLeftProcessing ==
  \A r \in RunIds :
    (pc[r] = "done" /\ searchId[r] # Null) =>
      searches[searchId[r].v].status =
        IF Completed(r) THEN "completed" ELSE "error"

CallsOf(r) ==
  {c \in 1..Len(sink) :
     \E k \in 1..Len(sink[c]) : sink[c][k].searchId = searchId[r]}

\* the n-th position, in ascending order, of a set of positions
NthOf(positions, n) ==
  CHOOSE k \in positions : Cardinality({j \in positions : j < k}) = n - 1

\* a row of the sink is the row of an observation: it carries the task and
\* the rank of the observation
RowOfObservation(row, e) ==
  /\ row.query = e.query
  /\ row.brand = e.brand
  /\ row.branch = e.branch
  /\ row.rankingPosition = e.query_result_number
  /\ IsNumber(row.rankingPosition)
  /\ row.brandMatch = e.brand_match
  /\ row.isLocalPack = e.is_local_pack

\* a row of the sink is the row of a 'Brand not found' entry
RowOfSentinel(row, e) ==
  /\ row.query = e.query
  /\ row.brand = e.brand
  /\ row.branch = e.branch
  /\ row.rankingPosition = Null
  /\ row.brandMatch = FALSE
  /\ row.title = Str(BrandNotFound)

\* the rows are those of the list: the rows of its observations in the
\* order of the list, then the rows of its 'Brand not found' entries in the
\* order of the list
RowsMirror(rows, list) ==
  LET observations == ObservationsOf(list)
      sentinels == SentinelsOf(list)
      n == Cardinality(observations)
  IN /\ Len(rows) = Len(list)
     /\ \A k \in 1..n : RowOfObservation(rows[k], list[NthOf(observations, k)])
     /\ \A k \in 1..Cardinality(sentinels) :
          RowOfSentinel(rows[n + k], list[NthOf(sentinels, k)])

\* run r has handed its rows to the sink and the sink has taken them
Saved(r) ==
  /\ searchId[r] # Null
  /\ \/ pc[r] = "updateSearch"
     \/ Completed(r) /\ Route(r) = "rerun"
     \/ SummaryStored(r)

\* C28: a run of the streaming or the rerun entry point calls the result
\* sink at most once, and only after its last task; the rows of the call
\* correspond one-to-one with the entries of the result list, the rows of
\* the observations first, each with the rank of its observation, and the
\* rows of the 'Brand not found' entries after them, each with
\* rankingPosition null, brandMatch false and title 'Brand not found'; a
\* run that completed with its rows saved has called the sink exactly once.
C28_SinkRowsMirrorResultList ==
  \A r \in RunIds :
    req[r] # Null =>
      /\ Cardinality(CallsOf(r)) <= 1
      /\ \A c \in CallsOf(r) :
           /\ i[r] = Len(queryData(r))
           /\ pc[r] \in {"updateSearch", "catch", "done"}
           /\ RowsMirror(sink[c], allResults[r])
      /\ Saved(r) => Cardinality(CallsOf(r)) = 1
      /\ Completed(r) => LastReport(r).allPlaces = allResults[r]

\* a completed run of two tasks has saved five rows: four rows of
\* observations, then the row of the 'Brand not found' entry of the first
\* task, which stands before the observations of the second in the list
C28_Witness ==
  \E r \in RunIds :
    /\ Completed(r)
    /\ Saved(r)
    /\ Len(queryData(r)) = 2
    /\ Len(allResults[r]) = 5
    /\ SentinelsOf(allResults[r]) # {}
    /\ \E k \in SentinelsOf(allResults[r]), j \in ObservationsOf(allResults[r]) :
         /\ k < j
         /\ allResults[r][j].brand_match
    /\ \E c \in CallsOf(r) : Len(sink[c]) = 5

\* the positions of the terminal events among the events of run r
TerminalEvents(r) ==
  {n \in 1..Len(out[r]) : out[r][n].type \in {"complete", "error"}}

\* C29: a streaming run emits one terminal event and no more: it never
\* has two ('complete' and 'error' are never both emitted), the terminal
\* event is its last event and the handler has ended when it is emitted, so
\* no progress event follows it; an ended run has emitted one, and every
\* run ends; a 'complete' event is emitted only when every task has been
\* processed.
C29_OneTerminalEvent ==
  /\ [](\A r \in RunIds :
          Streaming(r) =>
            /\ Cardinality(TerminalEvents(r)) <= 1
            /\ pc[r] = "done" <=> TerminalEvents(r) # {}
            /\ \A n \in TerminalEvents(r) :
                 /\ n = Len(out[r])
                 /\ out[r][n].type = "complete" =>
                      /\ i[r] = Len(queryData(r))
                      /\ ProcessedTasks(r) = 1..Len(queryData(r)))
  /\ [][\A r \in RunIds :
          (Streaming(r) /\ TerminalEvents(r) # {}) => out'[r] = out[r]]_vars
  /\ \A r \in RunIds : Streaming(r) => <>(TerminalEvents(r) # {})

\* a streaming run of two tasks has ended with an 'error' event, its only
\* terminal event, after the progress events of its first task and of a
\* page of its second
C29_Witness ==
  \E r \in RunIds :
    /\ Streaming(r)
    /\ pc[r] = "done"
    /\ out[r][Len(out[r])].type = "error"
    /\ Cardinality(TerminalEvents(r)) = 1
    /\ i[r] = 1
    /\ totalApiCalls[r] >= 3
    /\ Len(out[r]) >= 6

\* the history request has been answered with the history
HistoryAnswered ==
  /\ historyCase # Null
  /\ historyCase.response # Null
  /\ historyCase.response.status = 200

\* C30: in the ranking-history response no entry is older than the entry
\* after it (newest first); the previousPosition of an entry is the
\* rankingPosition of the entry after it, and null for the last entry; its
\* change is previousPosition - rankingPosition when both are numbers
\* (positive when the rank improved) and null otherwise.
C30_HistoryTrends ==
  HistoryAnswered =>
    LET data == historyCase.response.data
    IN \A k \in 1..Len(data) :
         /\ k < Len(data) => data[k].createdAt >= data[k + 1].createdAt
         /\ data[k].previousPosition =
              IF k = Len(data) THEN Null ELSE data[k + 1].rankingPosition
         /\ data[k].change =
              IF IsNumber(data[k].rankingPosition)
                 /\ IsNumber(data[k].previousPosition)
              THEN Num(data[k].previousPosition.v - data[k].rankingPosition.v)
              ELSE Null
         /\ (IsNumber(data[k].change) /\ data[k].change.v > 0) =>
              data[k].rankingPosition.v < data[k + 1].rankingPosition.v

\* a history of three entries: the newest, at position 1, improved by one
\* on the entry after it; that entry and the oldest, which has no position,
\* have previousPosition and change null
C30_Witness ==
  /\ HistoryAnswered
  /\ Len(historyCase.response.data) = 3
  /\ historyCase.response.data[1].createdAt > historyCase.response.data[3].createdAt
  /\ historyCase.response.data[1].rankingPosition = Num(1)
  /\ historyCase.response.data[1].previousPosition = Num(2)
  /\ historyCase.response.data[1].change = Num(1)
  /\ historyCase.response.data[2].previousPosition = Null
  /\ historyCase.response.data[2].change = Null
  /\ historyCase.response.data[3].rankingPosition = Null
  /\ historyCase.response.data[3].previousPosition = Null

====
